---- MODULE Spec2Model ----
(***************************************************************************)
(* Model of the tabular-structure inference and quality-scoring engine of  *)
(* pdf_parser: the Result Merger and the Table Quality Filter of           *)
(* src/src/table_extractor.py, the display filter of src/app.py, and the   *)
(* candidate generators, Structure Scorer and Text-to-Table Orchestrator   *)
(* of src/src/csv_converter.py.                                            *)
(*                                                                         *)
(* Strings are sequences of one-character strings, so that strip, lower,   *)
(* split and count are computed and not assumed.  Python floats that the   *)
(* code compares are modelled as exact rationals (cross-multiplied).       *)
(***************************************************************************)
EXTENDS Integers, Sequences, FiniteSets, TLC

VARIABLES
    mode,            \* which component this behaviour exercises
    pc,              \* position inside the component's call sequence
    lattice_tables,  \* _merge_table_results: first (preferred) argument
    stream_tables,   \* _merge_table_results: second argument
    merged_tables,   \* _merge_table_results: returned list
    tables,          \* quality filters: the argument list (its dictionaries
                     \* are the ones the extraction path updates in place)
    given,           \* quality filters: the argument as it was passed
    filtered,        \* quality filters: the list returned by the last call
    previous,        \* quality filters: the list returned by the call before
    text,            \* text_to_table: the raw text
    text_lines,      \* text_to_table: the stripped non-empty lines; the
                     \* argument of a generator called on its own
    approach,        \* text_to_table: position in `approaches` of the next
                     \* approach_func; the generator called on its own
    candidates,      \* the lists the generators have returned so far
    best_data,       \* text_to_table: best_data
    best_score,      \* text_to_table: best_score
    best_from,       \* position in `approaches` of the call whose list
                     \* best_data is (the identity of the object), 0 for None
    chosen,          \* text_to_table: data as chosen, before padding
    table_data,      \* text_to_table: data after padding
    table_headers,   \* text_to_table: headers
    score_data,      \* _score_table_structure: the argument
    total_score,     \* _score_table_structure: the returned score
    total_again,     \* _score_table_structure: the score of a second call
    pdf_data,        \* convert_pdf_to_csv: the argument
    csv_file,        \* the file written at csv_path: its rows of fields, the
                     \* header row first; <<>> while nothing is written
    CAMELOT_AVAILABLE,  \* extract_tables: the import of camelot succeeded
    TABULA_AVAILABLE,   \* extract_tables: the import of tabula succeeded
    raised           \* extract_tables: the calls that ended in an exception

vars == <<mode, pc, lattice_tables, stream_tables, merged_tables,
          tables, given, filtered, previous,
          text, text_lines, approach, candidates, best_data, best_score,
          best_from, chosen, table_data, table_headers,
          score_data, total_score, total_again, pdf_data, csv_file,
          CAMELOT_AVAILABLE, TABULA_AVAILABLE, raised>>

textVars == <<text, text_lines, approach, candidates, best_data, best_score,
              best_from, chosen, table_data, table_headers>>

scoreVars == <<score_data, total_score, total_again>>

emitVars == <<pdf_data, csv_file>>

extractVars == <<CAMELOT_AVAILABLE, TABULA_AVAILABLE, raised>>

mergeVars == <<lattice_tables, stream_tables, merged_tables>>

filterVars == <<tables, given, filtered, previous>>

(***************************************************************************)
(* Generic helpers                                                         *)
(***************************************************************************)

\* A dictionary key that is not present is the empty tuple; a present value
\* v of an integer key is the one-element tuple <<v>> (a shape is its own
\* pair), so that dict.get(key, default) is computed and not assumed.
Absent == <<>>

\* All sequences over S of length 0..n.
SeqUpTo(S, n) == UNION {[1..k -> S] : k \in 0..n}

Max(a, b) == IF a >= b THEN a ELSE b

Min(a, b) == IF a <= b THEN a ELSE b

\* [f(s[i]) : i in 1..Len(s)], Python's list comprehension without filter.
RECURSIVE SelectIdx(_, _, _)
SelectIdx(s, keep, i) ==
    IF i > Len(s) THEN <<>>
    ELSE (IF keep[i] THEN <<s[i]>> ELSE <<>>) \o SelectIdx(s, keep, i + 1)

(***************************************************************************)
(* Result Merger: TableExtractor._merge_table_results                      *)
(***************************************************************************)

\* table.get('page', -1)
PageOf(t) == IF t.page = Absent THEN -1 ELSE t.page[1]

\* shape[0] * shape[1] with table.get('shape', (0, 0))
CellCount(t) == IF t.shape = Absent THEN 0 ELSE t.shape[1] * t.shape[2]

\* lt_cell_count >= stream_cell_count * 0.7, in tenths
DominatesMutNoThreshold(lt, st) == CellCount(lt) >= CellCount(st)

Dominates(lt, st) == 10 * CellCount(lt) >= 7 * CellCount(st)

\* add_stream_table after the inner loop over lattice_tables_for_page: no
\* lattice table of the stream table's page dominates it.
AddStreamTable(lattice, st) ==
    \A i \in 1..Len(lattice) :
        PageOf(lattice[i]) = PageOf(st) => ~Dominates(lattice[i], st)

\* The loop over stream_tables with the `continue` of the new-page branch
\* left out: a table of a new page falls through to the comparison too.
RECURSIVE MergeLoopMutNoContinue(_, _, _, _, _)
MergeLoopMutNoContinue(lattice, stream, merged, existing_pages, i) ==
    IF i > Len(stream) THEN merged
    ELSE LET st == stream[i]
             new == PageOf(st) \notin existing_pages
             m1 == IF new THEN Append(merged, st) ELSE merged
             m2 == IF AddStreamTable(lattice, st) THEN Append(m1, st) ELSE m1
         IN  MergeLoopMutNoContinue(lattice, stream, m2,
                                    existing_pages \cup {PageOf(st)}, i + 1)

\* The loop over stream_tables with a stream table put in front of
\* merged_tables instead of behind it.
RECURSIVE MergeLoopMutPrepend(_, _, _, _, _)
MergeLoopMutPrepend(lattice, stream, merged, existing_pages, i) ==
    IF i > Len(stream) THEN merged
    ELSE LET st == stream[i]
         IN  IF PageOf(st) \notin existing_pages
             THEN MergeLoopMutPrepend(lattice, stream, <<st>> \o merged,
                                      existing_pages \cup {PageOf(st)}, i + 1)
             ELSE MergeLoopMutPrepend(lattice, stream,
                                      IF AddStreamTable(lattice, st)
                                      THEN <<st>> \o merged ELSE merged,
                                      existing_pages, i + 1)

\* The loop over stream_tables: its state is (merged_tables,
\* existing_pages); i is the next index into stream_tables.
RECURSIVE MergeLoop(_, _, _, _, _)
MergeLoop(lattice, stream, merged, existing_pages, i) ==
    IF i > Len(stream) THEN merged
    ELSE LET st == stream[i]
         IN  IF PageOf(st) \notin existing_pages
             THEN MergeLoop(lattice, stream, Append(merged, st),
                            existing_pages \cup {PageOf(st)}, i + 1)
             ELSE MergeLoop(lattice, stream,
                            IF AddStreamTable(lattice, st)
                            THEN Append(merged, st) ELSE merged,
                            existing_pages, i + 1)

MergeTableResultsMutReplace(lattice, stream) ==
    IF stream = <<>> THEN lattice
    ELSE IF lattice = <<>> THEN stream
    ELSE LET kept == [i \in 1..Len(lattice) |->
                        \A j \in 1..Len(stream) :
                           PageOf(stream[j]) = PageOf(lattice[i])
                              => Dominates(lattice[i], stream[j])]
         IN  MergeLoop(lattice, stream, SelectIdx(lattice, kept, 1),
                       {PageOf(lattice[i]) : i \in 1..Len(lattice)}, 1)

MergeTableResults(lattice, stream) ==
    IF stream = <<>> THEN lattice
    ELSE IF lattice = <<>> THEN stream
    ELSE MergeLoop(lattice, stream, lattice,
                   {PageOf(lattice[i]) : i \in 1..Len(lattice)}, 1)

(***************************************************************************)
(* Inputs of the Result Merger                                             *)
(***************************************************************************)

MaxLattice == 2

MaxStream == 2

MaxPage == 1

\* (rows, cols) of the extracted tables: 15, 25 and 35 cells.  15 < 0.7*25,
\* 25 >= 0.7*35 (24.5), 15 < 0.7*35.
MergeShapes == {<<5, 3>>, <<5, 5>>, <<7, 5>>}

MergePages == {<<p>> : p \in 1..MaxPage} \cup {Absent}

\* A table as the merger reads it.  origin and table_id stand for the
\* identity of the Python object: which list it came from and where.
MergeTable(origin, i, page, shape) ==
    [origin |-> origin, table_id |-> i - 1, page |-> page, shape |-> shape]

MergeLists(origin, n) ==
    UNION {{[i \in 1..k |-> MergeTable(origin, i, p[i], s[i])] :
               p \in [1..k -> MergePages], s \in [1..k -> MergeShapes]} :
           k \in 0..n}

(***************************************************************************)
(* Strings: a string is a sequence of one-character strings                *)
(***************************************************************************)

\* str.isspace() of one character
IsSpace(ch) == ch \in {" ", "\t", "\n"}

\* str.isdigit() of one character
IsDigit(ch) == ch \in {"0", "1", "2", "3", "4", "5", "6", "7", "8", "9"}

\* str.isupper() of one character
IsUpper(ch) == ch \in {"A", "B", "C", "N", "X"}

\* str.isalpha() of one character: the letters the inputs are written in
IsAlpha(ch) ==
    \/ IsUpper(ch)
    \/ ch \in {"a", "b", "c", "d", "e", "f", "g", "h", "i", "l", "m", "n",
               "o", "r", "t", "u", "x"}

\* str.lower() of one character
LowerChar(ch) ==
    CASE ch = "A" -> "a" [] ch = "B" -> "b" [] ch = "C" -> "c"
      [] ch = "N" -> "n" [] ch = "X" -> "x" [] OTHER -> ch

\* str.lower()
Lower(s) == [i \in 1..Len(s) |-> LowerChar(s[i])]

\* str.lstrip()
RECURSIVE LStrip(_)
LStrip(s) ==
    IF s # <<>> /\ IsSpace(Head(s)) THEN LStrip(Tail(s)) ELSE s

\* str.rstrip()
RECURSIVE RStrip(_)
RStrip(s) ==
    IF s # <<>> /\ IsSpace(s[Len(s)])
    THEN RStrip(SubSeq(s, 1, Len(s) - 1)) ELSE s

\* str.strip() that forgets the right-hand side
StripMutLeftOnly(s) == LStrip(s)

\* str.strip()
Strip(s) == RStrip(LStrip(s))

\* w in s (substring test)
Contains(s, w) ==
    \E i \in 1..(Len(s) - Len(w) + 1) : SubSeq(s, i, i + Len(w) - 1) = w

\* str(i) for 0 <= i <= 99
Digit(i) == CASE i = 0 -> "0" [] i = 1 -> "1" [] i = 2 -> "2" [] i = 3 -> "3"
              [] i = 4 -> "4" [] i = 5 -> "5" [] i = 6 -> "6" [] i = 7 -> "7"
              [] i = 8 -> "8" [] i = 9 -> "9"

IntToStr(i) == IF i < 10 THEN <<Digit(i)>> ELSE <<Digit(i \div 10), Digit(i % 10)>>

\* The set of elements of a sequence.
Range(s) == {s[i] : i \in 1..Len(s)}

\* sum(f[i] for i in 1..n)
RECURSIVE SumTo(_, _)
SumTo(f, n) == IF n = 0 THEN 0 ELSE f[n] + SumTo(f, n - 1)

(***************************************************************************)
(* Table Records of the quality filters                                    *)
(***************************************************************************)

\* A cell that is Python's None (every other cell is a string).
NoneCell == <<"<None>">>

\* str(cell)
StrOf(cell) == IF cell = NoneCell THEN <<"N", "o", "n", "e">> ELSE cell

\* accuracy: a number in hundredths, None, or no 'accuracy' key at all.
AccNum(v) == [k |-> "num", v |-> v]

AccNone == [k |-> "none", v |-> 0]

AccAbsent == [k |-> "absent", v |-> 0]

\* table.get('rows', [])
RowsOf(t) == t.rows

\* the (row, column) positions of all cells of a list of rows
CellsAt(rows) ==
    UNION {{<<r, c>> : c \in 1..Len(rows[r])} : r \in 1..Len(rows)}

TotalCells(rows) == SumTo([r \in 1..Len(rows) |-> Len(rows[r])], Len(rows))

(***************************************************************************)
(* Table Quality Filter, extraction path:                                  *)
(* TableExtractor._filter_tables_by_quality                                *)
(***************************************************************************)

\* accuracy < 0.3, in hundredths
QualityAccuracyFloor == 30

\* len(unique_values) < 3
QualityUniqueFloor == 3

\* rows < 2 or cols < 2 written with `and`
QualityTinyMutAnd(t) ==
    LET rows == Len(RowsOf(t))
        cols == IF t.shape = Absent THEN 0 ELSE t.shape[2]
    IN  rows < 2 /\ cols < 2

\* rows < 2 or cols < 2, rows = len(table.get('rows', [])) and
\* cols = table['shape'][1] if 'shape' in table else 0
QualityTiny(t) ==
    LET rows == Len(RowsOf(t))
        cols == IF t.shape = Absent THEN 0 ELSE t.shape[2]
    IN  rows < 2 \/ cols < 2

\* accuracy = table.get('accuracy'); accuracy is not None and accuracy < 0.3
QualityLowAccuracy(t) ==
    t.accuracy.k = "num" /\ t.accuracy.v < QualityAccuracyFloor

\* str(cell).strip() if cell is not None else ""
CleanCell(cell) == IF cell = NoneCell THEN <<>> ELSE Strip(StrOf(cell))

CleanRow(row) == [c \in 1..Len(row) |-> CleanCell(row[c])]

\* cleaned_rows: the cleaned rows that are not completely empty
CleanedRows(rows) ==
    LET cleaned == [r \in 1..Len(rows) |-> CleanRow(rows[r])]
        keep == [r \in 1..Len(rows) |-> \E c \in 1..Len(cleaned[r]) : cleaned[r][c] # <<>>]
    IN  SelectIdx(cleaned, keep, 1)

\* (len(cleaned_rows), len(cleaned_rows[0]) if cleaned_rows else 0) with the
\* column count taken as the longest row
ShapeOfCleanedMutMax(cleaned) ==
    <<Len(cleaned),
      IF cleaned = <<>> THEN 0
      ELSE CHOOSE m \in {Len(cleaned[r]) : r \in 1..Len(cleaned)} :
              \A r \in 1..Len(cleaned) : Len(cleaned[r]) <= m>>

\* (len(cleaned_rows), len(cleaned_rows[0]) if cleaned_rows else 0)
ShapeOfCleaned(cleaned) ==
    <<Len(cleaned), IF cleaned = <<>> THEN 0 ELSE Len(cleaned[1])>>

\* empty_cells over the cleaned rows
EmptyCells(rows) ==
    SumTo([r \in 1..Len(rows) |->
              Cardinality({c \in 1..Len(rows[r]) : rows[r][c] = <<>>})],
          Len(rows))

\* total_cells > 0 and empty_cells / total_cells >= 0.6
QualityMostlyEmptyMutAtLeast(cleaned) ==
    TotalCells(cleaned) > 0 /\ 10 * EmptyCells(cleaned) >= 6 * TotalCells(cleaned)

\* total_cells > 0 and empty_cells / total_cells > 0.6
QualityMostlyEmpty(cleaned) ==
    TotalCells(cleaned) > 0 /\ 10 * EmptyCells(cleaned) > 6 * TotalCells(cleaned)

\* unique_values: cell.lower().strip() of the non-empty cleaned cells
QualityUniqueValues(cleaned) ==
    {Strip(Lower(cleaned[r][c])) :
        <<r, c>> \in {x \in CellsAt(cleaned) : cleaned[x[1]][x[2]] # <<>>}}

\* f"Column {i+1}" for the 0-based index i
ColumnName(i) == <<"C", "o", "l", "u", "m", "n", " ">> \o IntToStr(i + 1)

\* the headers written back to an accepted table
QualityHeaders(t, shape, cleaned) ==
    LET headers == IF t.headers = Absent THEN <<>> ELSE t.headers[1]
    IN  IF headers # <<>>
        THEN <<[i \in 1..Len(headers) |->
                  IF headers[i] = NoneCell THEN ColumnName(i - 1)
                  ELSE Strip(StrOf(headers[i]))]>>
        ELSE LET num_cols == IF shape[2] > 0 THEN shape[2] ELSE Len(cleaned[1])
             IN  <<[i \in 1..num_cols |-> ColumnName(i - 1)]>>

\* One iteration of the loop over tables: whether the table is appended to
\* filtered_tables, and the table as the iteration leaves it (the dictionary
\* is updated in place before the emptiness and diversity checks).
QualityStep(t) ==
    IF QualityTiny(t) \/ QualityLowAccuracy(t)
    THEN [accept |-> FALSE, table |-> t]
    ELSE LET cleaned == CleanedRows(RowsOf(t))
         IN  IF Len(cleaned) < 2
             THEN [accept |-> FALSE, table |-> t]
             ELSE LET shape == ShapeOfCleaned(cleaned)
                      t1 == [t EXCEPT !.rows = cleaned, !.shape = shape]
                  IN  IF \/ QualityMostlyEmpty(cleaned)
                         \/ Cardinality(QualityUniqueValues(cleaned))
                               < QualityUniqueFloor
                      THEN [accept |-> FALSE, table |-> t1]
                      ELSE [accept |-> TRUE,
                            table |-> [t1 EXCEPT !.headers =
                                          QualityHeaders(t, shape, cleaned)]]

\* _filter_tables_by_quality(tables): the list returned (out) and the
\* argument list as the call leaves it (arg).
FilterTablesByQuality(ts) ==
    LET step == [i \in 1..Len(ts) |-> QualityStep(ts[i])]
    IN  [out |-> SelectIdx([i \in 1..Len(ts) |-> step[i].table],
                           [i \in 1..Len(ts) |-> step[i].accept], 1),
         arg |-> [i \in 1..Len(ts) |-> step[i].table]]

(***************************************************************************)
(* Table Quality Filter, display path: filter_tables_for_display (app.py)  *)
(***************************************************************************)

\* accuracy < 0.4, in hundredths
DisplayAccuracyFloor == 40

\* len(unique_content) < 4
DisplayUniqueFloor == 4

\* filtered[:3]
DisplayLimit == 3

\* table.get('accuracy', 1.0), in hundredths
DisplayAccuracyDefault == 100

\* table.get('shape', (0, 0))
ShapeOf(t) == IF t.shape = Absent THEN <<0, 0>> ELSE t.shape

\* shape[0] < 2 or shape[1] < 2
DisplayTiny(t) == ShapeOf(t)[1] < 2 \/ ShapeOf(t)[2] < 2

\* accuracy = table.get('accuracy', 1.0); accuracy is not None and < 0.4
DisplayLowAccuracy(t) ==
    LET v == IF t.accuracy.k = "absent" THEN DisplayAccuracyDefault
             ELSE t.accuracy.v
    IN  t.accuracy.k # "none" /\ v < DisplayAccuracyFloor

\* cell_str = str(cell).strip() if cell else ""   (None and "" are falsy)
DisplayCellStr(cell) ==
    IF cell = NoneCell \/ cell = <<>> THEN <<>> ELSE Strip(StrOf(cell))

\* non_empty_cells
DisplayNonEmpty(rows) ==
    Cardinality({x \in CellsAt(rows) : DisplayCellStr(rows[x[1]][x[2]]) # <<>>})

\* unique_content
DisplayUnique(rows) ==
    {Lower(DisplayCellStr(rows[x[1]][x[2]])) :
        x \in {y \in CellsAt(rows) : DisplayCellStr(rows[y[1]][y[2]]) # <<>>}}

HeaderWords ==
    {<<"c", "o", "l", "u", "m", "n">>, <<"h", "e", "a", "d", "e", "r">>,
     <<"t", "i", "t", "l", "e">>, <<"n", "a", "m", "e">>,
     <<"f", "i", "e", "l", "d">>, <<"t", "a", "b", "l", "e">>}

\* any(word in content for content in row_content for word in [...]) with
\* row_content = [str(cell).strip().lower() for cell in row if str(cell).strip()]
HeaderLikeRow(row) ==
    \E c \in 1..Len(row) :
        /\ Strip(StrOf(row[c])) # <<>>
        /\ \E w \in HeaderWords : Contains(Lower(Strip(StrOf(row[c]))), w)

\* header_like_rows > len(rows) / 2
MostlyHeaderLike(rows) ==
    2 * Cardinality({r \in 1..Len(rows) : HeaderLikeRow(rows[r])}) > Len(rows)

\* One iteration of the loop over tables: TRUE when the table is appended
\* to filtered (the table itself is not changed).
DisplayAccepts(t) ==
    LET rows == RowsOf(t)
    IN  /\ ~DisplayTiny(t)
        /\ ~DisplayLowAccuracy(t)
        /\ Len(rows) >= 2
        /\ TotalCells(rows) # 0
        /\ 10 * DisplayNonEmpty(rows) >= 4 * TotalCells(rows)
        /\ Cardinality(DisplayUnique(rows)) >= DisplayUniqueFloor
        /\ ~MostlyHeaderLike(rows)

\* The sort key: (t.get('accuracy', 0), shape[0] * shape[1],
\* len(set(str(cell).strip().lower() for ... if str(cell).strip())))
SortKey(t) ==
    [acc |-> IF t.accuracy.k = "absent" THEN AccNum(0) ELSE t.accuracy,
     cells |-> ShapeOf(t)[1] * ShapeOf(t)[2],
     uniq |-> Cardinality({Lower(Strip(StrOf(RowsOf(t)[x[1]][x[2]]))) :
                 x \in {y \in CellsAt(RowsOf(t)) :
                           Strip(StrOf(RowsOf(t)[y[1]][y[2]])) # <<>>}})]

\* Comparing two keys raises TypeError when the first components differ and
\* one of them is None.
KeysIncomparable(k1, k2) == k1.acc.k # k2.acc.k

\* k1 < k2 on comparable keys (tuple order)
KeyLess(k1, k2) ==
    \/ k1.acc.v < k2.acc.v
    \/ k1.acc.v = k2.acc.v /\ k1.cells < k2.cells
    \/ k1.acc.v = k2.acc.v /\ k1.cells = k2.cells /\ k1.uniq < k2.uniq

\* list.sort(key=..., reverse=True): descending and stable, so a table goes
\* behind every table whose key is not smaller than its own.
RECURSIVE InsertDesc(_, _)
InsertDesc(sorted, t) ==
    IF sorted = <<>> THEN <<t>>
    ELSE IF KeyLess(SortKey(Head(sorted)), SortKey(t))
         THEN <<t>> \o sorted
         ELSE <<Head(sorted)>> \o InsertDesc(Tail(sorted), t)

RECURSIVE SortDesc(_, _)
SortDesc(list, i) ==
    IF i = 0 THEN <<>> ELSE InsertDesc(SortDesc(list, i - 1), list[i])

\* the sort compares a None accuracy with a number
SortRaises(list) ==
    \E i, j \in 1..Len(list) : KeysIncomparable(SortKey(list[i]), SortKey(list[j]))

\* filter_tables_for_display(tables): raised is TRUE when the call ends in
\* a TypeError, out is the list returned otherwise.
FilterTablesForDisplay(ts) ==
    LET kept == SelectIdx(ts, [i \in 1..Len(ts) |-> DisplayAccepts(ts[i])], 1)
        sorted == SortDesc(kept, Len(kept))
    IN  IF SortRaises(kept)
        THEN [raised |-> TRUE, out |-> <<>>]
        ELSE [raised |-> FALSE,
              out |-> SubSeq(sorted, 1, Min(DisplayLimit, Len(sorted)))]

(***************************************************************************)
(* String splitting                                                        *)
(***************************************************************************)

\* sep occurs in s at position i
OccursAt(s, sep, i) ==
    i >= 1 /\ i + Len(sep) - 1 <= Len(s) /\ SubSeq(s, i, i + Len(sep) - 1) = sep

\* s.find(sep) from position i on, 1-based; 0 when sep does not occur
RECURSIVE Find(_, _, _)
Find(s, sep, i) ==
    IF i + Len(sep) - 1 > Len(s) THEN 0
    ELSE IF OccursAt(s, sep, i) THEN i
    ELSE Find(s, sep, i + 1)

\* s.split(sep): the pieces between the non-overlapping occurrences of sep,
\* found from the left
RECURSIVE Split(_, _)
Split(s, sep) ==
    LET i == Find(s, sep, 1)
    IN  IF i = 0 THEN <<s>>
        ELSE <<SubSeq(s, 1, i - 1)>> \o Split(SubSeq(s, i + Len(sep), Len(s)), sep)

\* s.count(sep): the number of non-overlapping occurrences of sep
Count(s, sep) == Len(Split(s, sep)) - 1

\* the end of the run of whitespace that starts at position i
RECURSIVE SpaceRunEnd(_, _)
SpaceRunEnd(s, i) ==
    IF i < Len(s) /\ IsSpace(s[i + 1]) THEN SpaceRunEnd(s, i + 1) ELSE i

\* re.split(r'\s{2,}', s): split at every run of two or more whitespace
\* characters; `from` is where the current piece starts and i the position
\* looked at
RECURSIVE ReSplitSpaces(_, _, _)
ReSplitSpaces(s, from, i) ==
    IF i > Len(s) THEN <<SubSeq(s, from, Len(s))>>
    ELSE IF IsSpace(s[i]) /\ SpaceRunEnd(s, i) > i
         THEN <<SubSeq(s, from, i - 1)>>
                 \o ReSplitSpaces(s, SpaceRunEnd(s, i) + 1, SpaceRunEnd(s, i) + 1)
         ELSE ReSplitSpaces(s, from, i + 1)

\* [x for x in seq if x.strip()] and variants: the elements that pass
SelectSeqBy(seq, keep(_)) ==
    SelectIdx(seq, [i \in 1..Len(seq) |-> keep(seq[i])], 1)

NonBlank(s) == Strip(s) # <<>>

\* [col.strip() for col in line.split(delim) if col.strip()]
SplitStripped(line, delim) ==
    LET cols == SelectSeqBy(Split(line, delim), NonBlank)
    IN  [i \in 1..Len(cols) |-> Strip(cols[i])]

\* {i for i, char in enumerate(line) if char.isspace()}, 0-based
SpacePositions(line) == {i - 1 : i \in {j \in 1..Len(line) : IsSpace(line[j])}}

\* sorted(list(set_of_ints))
RECURSIVE SortedList(_)
SortedList(S) ==
    IF S = {} THEN <<>>
    ELSE LET m == CHOOSE x \in S : \A y \in S : x <= y
         IN  <<m>> \o SortedList(S \ {m})

\* seq[:n]
Take(seq, n) == SubSeq(seq, 1, Min(n, Len(seq)))

\* line[start:end] with 0-based start and end
Slice(line, start, end) == SubSeq(line, start + 1, Min(end, Len(line)))

(***************************************************************************)
(* Fixed-Width Column Splitter: CSVConverter._try_fixed_width_columns      *)
(***************************************************************************)

\* lines[:10]
FixedWidthSample == 10

\* the end position appended to the boundaries
FixedWidthEnd == 1000

\* common_spaces: the positions that are whitespace in every sampled line
CommonSpaces(sample) ==
    IF sample = <<>> THEN {}
    ELSE {i \in SpacePositions(sample[1]) :
             \A k \in 1..Len(sample) : i \in SpacePositions(sample[k])}

\* the row cut from one line along the boundaries: the loop over
\* range(len(boundaries) - 1) with its break and its `if cell`
FixedWidthRow(line, boundaries) ==
    LET cells == [i \in 1..(Len(boundaries) - 1) |->
                     IF boundaries[i] >= Len(line) THEN <<>>
                     ELSE Strip(Slice(line, boundaries[i], boundaries[i + 1]))]
    IN  SelectSeqBy(cells, NonBlank)

\* _try_fixed_width_columns without the `continue` for short lines
TryFixedWidthColumnsMutNoSkip(lines) ==
    IF Len(lines) < 2 THEN <<>>
    ELSE LET common_spaces == SortedList(CommonSpaces(Take(lines, FixedWidthSample)))
         IN  IF common_spaces = <<>> THEN <<>>
             ELSE LET boundaries == <<0>> \o common_spaces \o <<FixedWidthEnd>>
                      rows == [i \in 1..Len(lines) |->
                                  FixedWidthRow(lines[i], boundaries)]
                  IN  SelectIdx(rows, [i \in 1..Len(rows) |-> rows[i] # <<>>], 1)

TryFixedWidthColumns(lines) ==
    IF Len(lines) < 2 THEN <<>>
    ELSE LET common_spaces == SortedList(CommonSpaces(Take(lines, FixedWidthSample)))
         IN  IF common_spaces = <<>> THEN <<>>
             ELSE LET boundaries == <<0>> \o common_spaces \o <<FixedWidthEnd>>
                      long == SelectIdx(lines,
                                  [i \in 1..Len(lines) |->
                                      Len(lines[i]) >= boundaries[2]], 1)
                      rows == [i \in 1..Len(long) |->
                                  FixedWidthRow(long[i], boundaries)]
                  IN  SelectIdx(rows, [i \in 1..Len(rows) |-> rows[i] # <<>>], 1)

(***************************************************************************)
(* Delimiter Detector: CSVConverter._try_delimiter_detection               *)
(***************************************************************************)

\* lines[:20]
DelimiterSample == 20

\* best_score > 10
DelimiterFloor == 10

\* delimiters, in the order they are scored
Delimiters == <<<<",">>, <<"\t">>, <<"|">>, <<":">>, <<";">>, <<" ", " ">>>>

\* counts[delimiter]['total']
DelimiterTotal(sample, delim) ==
    SumTo([i \in 1..Len(sample) |-> Count(sample[i], delim)], Len(sample))

\* counts[delimiter]['consistent']: every positive count equals the
\* positive count before it
DelimiterConsistent(sample, delim) ==
    \A i, j \in 1..Len(sample) :
        (Count(sample[i], delim) > 0 /\ Count(sample[j], delim) > 0)
            => Count(sample[i], delim) = Count(sample[j], delim)

\* score = total, without the doubling of a consistent delimiter
DelimiterScoreMutNoDouble(sample, delim) == DelimiterTotal(sample, delim)

\* score = info['total'], times 2 if info['consistent']
DelimiterScore(sample, delim) ==
    IF DelimiterConsistent(sample, delim)
    THEN 2 * DelimiterTotal(sample, delim)
    ELSE DelimiterTotal(sample, delim)

\* the loop over counts.items(): the first delimiter of the highest score,
\* as its index in Delimiters, 0 while best_delimiter is None
RECURSIVE BestDelimiter(_, _, _, _)
BestDelimiter(sample, i, best, top_score) ==
    IF i > Len(Delimiters) THEN [delim |-> best, score |-> top_score]
    ELSE IF DelimiterScore(sample, Delimiters[i]) > top_score
         THEN BestDelimiter(sample, i + 1, i, DelimiterScore(sample, Delimiters[i]))
         ELSE BestDelimiter(sample, i + 1, best, top_score)

\* the rows of the lines split by the delimiter, every column kept
DelimitedRowsMutKeepEmpty(lines, delim) ==
    [i \in 1..Len(lines) |->
        LET cols == Split(lines[i], delim)
        IN  [c \in 1..Len(cols) |-> Strip(cols[c])]]

\* the rows of the lines split by the delimiter, empty rows left out
DelimitedRows(lines, delim) ==
    LET rows == [i \in 1..Len(lines) |-> SplitStripped(lines[i], delim)]
    IN  SelectIdx(rows, [i \in 1..Len(rows) |-> rows[i] # <<>>], 1)

TryDelimiterDetection(lines) ==
    IF lines = <<>> THEN <<>>
    ELSE LET best == BestDelimiter(Take(lines, DelimiterSample), 1, 0, 0)
         IN  IF best.delim # 0 /\ best.score > DelimiterFloor
             THEN DelimitedRows(lines, Delimiters[best.delim])
             ELSE <<>>

(***************************************************************************)
(* Line-Grouping Segmenter: CSVConverter._try_line_grouping                *)
(***************************************************************************)

\* len(line) < 40
HeaderMaxLen == 40

\* line.split(): the maximal runs of non-whitespace characters
RECURSIVE Words(_, _, _)
Words(s, from, i) ==
    IF i > Len(s)
    THEN (IF from < i THEN <<SubSeq(s, from, i - 1)>> ELSE <<>>)
    ELSE IF IsSpace(s[i])
         THEN (IF from < i THEN <<SubSeq(s, from, i - 1)>> ELSE <<>>)
                 \o Words(s, i + 1, i + 1)
         ELSE Words(s, from, i + 1)

\* line.isupper(): some cased character, and no lower-case one
IsUpperStr(s) ==
    /\ \E i \in 1..Len(s) : IsUpper(s[i])
    /\ \A i \in 1..Len(s) : IsAlpha(s[i]) => IsUpper(s[i])

\* is_header
IsHeader(line) ==
    \/ Len(line) < HeaderMaxLen
    \/ IsUpperStr(line)
    \/ (line # <<>> /\ line[Len(line)] = ":")
    \/ \A w \in Range(Words(line, 1, 1)) : IsUpper(w[1])

\* has_numbers
HasNumbers(line) == \E i \in 1..Len(line) : IsDigit(line[i])

\* The loop over lines without the statement after it that adds the last
\* row.
RECURSIVE GroupLoopMutNoLastRow(_, _, _, _, _)
GroupLoopMutNoLastRow(lines, i, data, current_row, pattern_count) ==
    IF i > Len(lines)
    THEN data
    ELSE LET line == lines[i]
         IN  IF IsHeader(line) /\ current_row # <<>>
             THEN GroupLoopMutNoLastRow(lines, i + 1, Append(data, current_row),
                                        <<line>>, 0)
             ELSE IF HasNumbers(line) /\ pattern_count > 0
             THEN GroupLoopMutNoLastRow(lines, i + 1, data,
                                        Append(current_row, line),
                                        pattern_count + 1)
             ELSE GroupLoopMutNoLastRow(lines, i + 1,
                                        IF current_row # <<>>
                                        THEN Append(data, current_row)
                                        ELSE data,
                                        <<line>>, 1)

\* The loop over lines: data, current_row and pattern_count after the
\* lines from position i on.
RECURSIVE GroupLoop(_, _, _, _, _)
GroupLoop(lines, i, data, current_row, pattern_count) ==
    IF i > Len(lines)
    THEN (IF current_row # <<>> THEN Append(data, current_row) ELSE data)
    ELSE LET line == lines[i]
         IN  IF IsHeader(line) /\ current_row # <<>>
             THEN GroupLoop(lines, i + 1, Append(data, current_row), <<line>>, 0)
             ELSE IF HasNumbers(line) /\ pattern_count > 0
             THEN GroupLoop(lines, i + 1, data, Append(current_row, line),
                            pattern_count + 1)
             ELSE GroupLoop(lines, i + 1,
                            IF current_row # <<>> THEN Append(data, current_row)
                            ELSE data,
                            <<line>>, 1)

TryLineGrouping(lines) ==
    IF lines = <<>> THEN <<>> ELSE GroupLoop(lines, 1, <<>>, <<>>, 0)

(***************************************************************************)
(* Structure Scorer: CSVConverter._score_table_structure                   *)
(*                                                                         *)
(* A score is the exact rational num/den with den > 0.  For n rows with    *)
(* S cells in all, every term is a multiple of 1/(10 n^2 S); with S = 0    *)
(* (no cell at all) of 1/(10 n^2).                                         *)
(***************************************************************************)

Rational(num, den) == [num |-> num, den |-> den]

\* The sign of a/b - c/d for b, d > 0, by the continued-fraction expansion
\* of both sides, which needs no product of the operands.
RECURSIVE CompareRatios(_, _, _, _)
CompareRatios(a, b, c, d) ==
    IF a \div b # c \div d THEN (IF a \div b > c \div d THEN 1 ELSE -1)
    ELSE IF a % b = 0 /\ c % d = 0 THEN 0
    ELSE IF a % b = 0 THEN -1
    ELSE IF c % d = 0 THEN 1
    ELSE -CompareRatios(b, a % b, d, c % d)

\* x > y on scores
ScoreGreater(x, y) == CompareRatios(x.num, x.den, y.num, y.den) = 1

\* x >= y on scores
ScoreAtLeast(x, y) == CompareRatios(x.num, x.den, y.num, y.den) >= 0

\* sum(c ** 2 for c in col_counts)
SumSquares(col_counts) ==
    SumTo([i \in 1..Len(col_counts) |-> col_counts[i] * col_counts[i]],
          Len(col_counts))

\* 3.0 - variance / 5.0 without the max(0.0, ...), times den
ConsistencyScoreMutNoClamp(col_counts, den) ==
    LET n == Len(col_counts)
        S == SumTo(col_counts, n)
    IN  IF \A i \in 1..n : col_counts[i] = col_counts[1]
        THEN 3 * den
        ELSE 3 * den - ((n * SumSquares(col_counts) - S * S) * den) \div (5 * n * n)

\* consistency_score times den: 3.0 when all rows have one length, else
\* max(0.0, 3.0 - variance / 5.0) with
\* variance = (n * sum(c^2) - S^2) / n^2; den is a multiple of 5 n^2
ConsistencyScore(col_counts, den) ==
    LET n == Len(col_counts)
        S == SumTo(col_counts, n)
    IN  IF \A i \in 1..n : col_counts[i] = col_counts[1]
        THEN 3 * den
        ELSE Max(0, 3 * den
                    - ((n * SumSquares(col_counts) - S * S) * den) \div (5 * n * n))

\* re.search(r'\d', cell)
IsNumericCell(cell) == \E i \in 1..Len(cell) : IsDigit(cell[i])

\* _score_table_structure with row_score = row_count / 10.0, without the
\* min(2.0, ...)
ScoreTableStructureMutNoRowCap(data) ==
    IF data = <<>> THEN Rational(0, 1)
    ELSE IF Len(data) <= 1 THEN Rational(1, 1)
    ELSE LET n == Len(data)
             col_counts == [i \in 1..n |-> Len(data[i])]
             S == SumTo(col_counts, n)
             den == 10 * n * n * (IF S > 0 THEN S ELSE 1)
             cols_score == Min(3 * den, (S * den) \div (2 * n))
             numeric_cells ==
                 Cardinality({x \in CellsAt(data) : IsNumericCell(data[x[1]][x[2]])})
             content_score ==
                 IF S > 0 THEN (2 * numeric_cells * den) \div S ELSE 0
             row_score == (n * den) \div 10
         IN  Rational(ConsistencyScore(col_counts, den) + cols_score
                         + content_score + row_score,
                      den)

ScoreTableStructure(data) ==
    IF data = <<>> THEN Rational(0, 1)
    ELSE IF Len(data) <= 1 THEN Rational(1, 1)
    ELSE LET n == Len(data)
             col_counts == [i \in 1..n |-> Len(data[i])]
             S == SumTo(col_counts, n)
             den == 10 * n * n * (IF S > 0 THEN S ELSE 1)
             \* cols_score = min(3.0, avg_cols / 2.0), avg_cols = S / n
             cols_score == Min(3 * den, (S * den) \div (2 * n))
             numeric_cells ==
                 Cardinality({x \in CellsAt(data) : IsNumericCell(data[x[1]][x[2]])})
             \* content_score = numeric_cells / cell_counts * 2.0
             content_score ==
                 IF S > 0 THEN (2 * numeric_cells * den) \div S ELSE 0
             \* row_score = min(2.0, row_count / 10.0)
             row_score == Min(2 * den, (n * den) \div 10)
         IN  Rational(ConsistencyScore(col_counts, den) + cols_score
                         + content_score + row_score,
                      den)

(***************************************************************************)
(* Consistent-Pattern Segmenter: CSVConverter._try_consistent_patterns     *)
(***************************************************************************)

\* largest_group[:5]
PatternSample == 5

\* len(largest_group) < 3
PatternMinGroup == 3

\* get_pattern: d = digit, a = alpha, s = space, o = other
GetPattern(line) ==
    [i \in 1..Len(line) |->
        IF IsDigit(line[i]) THEN "d"
        ELSE IF IsAlpha(line[i]) THEN "a"
        ELSE IF IsSpace(line[i]) THEN "s"
        ELSE "o"]

\* ''.join(a for a, _ in itertools.groupby(pattern))
SimplePattern(pattern) ==
    SelectIdx(pattern,
              [i \in 1..Len(pattern) |-> i = 1 \/ pattern[i] # pattern[i - 1]], 1)

\* groups[simple_pattern], as 1-based line positions in increasing order
PatternGroup(lines, sp) ==
    SelectIdx([i \in 1..Len(lines) |-> i],
              [i \in 1..Len(lines) |-> SimplePattern(GetPattern(lines[i])) = sp], 1)

\* the loop over groups.values(), in the order the patterns first occur:
\* the first group of the greatest size
RECURSIVE LargestGroup(_, _, _)
LargestGroup(lines, i, largest) ==
    IF i > Len(lines) THEN largest
    ELSE LET g == PatternGroup(lines, SimplePattern(GetPattern(lines[i])))
         IN  LargestGroup(lines, i + 1, IF Len(g) > Len(largest) THEN g ELSE largest)

\* potential_delims, in the order they are tried
PotentialDelims == <<<<",">>, <<"\t">>, <<" ", " ">>, <<"|">>, <<";">>, <<":">>>>

\* parts of one line for a delimiter
PatternParts(line, delim) ==
    IF delim = <<" ", " ">>
    THEN SelectSeqBy(ReSplitSpaces(line, 1, 1), NonBlank)
    ELSE SplitStripped(line, delim)

\* the loop over potential_delims keeping the first delimiter that
\* qualifies instead of the best-scoring one
RECURSIVE BestPatternDelimMutFirst(_, _, _, _)
BestPatternDelimMutFirst(sample, i, best, max_score) ==
    IF i > Len(PotentialDelims) THEN best
    ELSE LET col_counts == [k \in 1..Len(sample) |->
                               Len(PatternParts(sample[k], PotentialDelims[i]))]
             ok == /\ \A k \in 1..Len(sample) : col_counts[k] = col_counts[1]
                   /\ col_counts[1] > 1
             score == col_counts[1] * Len(sample)
         IN  IF ok /\ best = 0
             THEN BestPatternDelimMutFirst(sample, i + 1, i, score)
             ELSE BestPatternDelimMutFirst(sample, i + 1, best, max_score)

\* the loop over potential_delims: best_delim as an index, 0 for None
RECURSIVE BestPatternDelim(_, _, _, _)
BestPatternDelim(sample, i, best, max_score) ==
    IF i > Len(PotentialDelims) THEN best
    ELSE LET col_counts == [k \in 1..Len(sample) |->
                               Len(PatternParts(sample[k], PotentialDelims[i]))]
             ok == /\ \A k \in 1..Len(sample) : col_counts[k] = col_counts[1]
                   /\ col_counts[1] > 1
             score == col_counts[1] * Len(sample)
         IN  IF ok /\ score > max_score
             THEN BestPatternDelim(sample, i + 1, i, score)
             ELSE BestPatternDelim(sample, i + 1, best, max_score)

\* the parts of one line cut at the common space positions (0-based,
\* sorted): the loop over common_spaces from position k on, then the last
\* part
RECURSIVE SpaceParts(_, _, _, _)
SpaceParts(line, common_spaces, k, start_idx) ==
    IF k > Len(common_spaces)
    THEN (IF start_idx < Len(line)
             /\ Strip(SubSeq(line, start_idx + 1, Len(line))) # <<>>
          THEN <<Strip(SubSeq(line, start_idx + 1, Len(line)))>>
          ELSE <<>>)
    ELSE LET space_idx == common_spaces[k]
             part == Strip(Slice(line, start_idx, space_idx))
         IN  (IF space_idx > start_idx /\ part # <<>> THEN <<part>> ELSE <<>>)
                \o SpaceParts(line, common_spaces, k + 1, space_idx + 1)

TryConsistentPatterns(lines) ==
    IF Len(lines) < PatternMinGroup THEN <<>>
    ELSE LET largest_group == LargestGroup(lines, 1, <<>>)
         IN  IF Len(largest_group) < PatternMinGroup THEN <<>>
             ELSE LET group_lines == [k \in 1..Len(largest_group) |->
                                         lines[largest_group[k]]]
                      sample_lines == Take(group_lines, PatternSample)
                      best_delim == BestPatternDelim(sample_lines, 1, 0, 0)
                      common_spaces == SortedList(CommonSpaces(sample_lines))
                  IN  IF best_delim # 0
                      THEN [k \in 1..Len(group_lines) |->
                               PatternParts(group_lines[k],
                                            PotentialDelims[best_delim])]
                      ELSE IF common_spaces # <<>>
                      THEN LET rows == [k \in 1..Len(group_lines) |->
                                           SpaceParts(group_lines[k],
                                                      common_spaces, 1, 0)]
                           IN  SelectIdx(rows,
                                         [k \in 1..Len(rows) |-> rows[k] # <<>>], 1)
                      ELSE <<>>

(***************************************************************************)
(* Inputs of the quality filters                                           *)
(***************************************************************************)

MaxTables == 2

\* shape as the extractors set it (df.shape): the number of rows and the
\* length of the longest row.
ShapeOfRows(rows) ==
    <<Len(rows),
      IF rows = <<>> THEN 0
      ELSE CHOOSE m \in {Len(rows[r]) : r \in 1..Len(rows)} :
              \A r \in 1..Len(rows) : Len(rows[r]) <= m>>

\* A Table Record as the extractors build it.
TableRecord(rows, accuracy, headers) ==
    [page |-> <<1>>, rows |-> rows, shape |-> ShapeOfRows(rows),
     accuracy |-> accuracy, headers |-> headers]

\* The Table Records the filters are run on: accepted and rejected ones for
\* every check of both paths, with rectangular and ragged rows, cells with
\* surrounding blanks, upper case, None, and accuracies on both floors.
FilterPool ==
    LET E == <<>>
        SP == <<" ">>
        a == <<"a">>
        b == <<"b">>
        c == <<"c">>
        d == <<"d">>
        e == <<"e">>
        UA == <<"A">>
        pa == <<" ", "a", " ">>
        name == <<"N", "a", "m", "e">>
        hs == <<<<<<" ", "h">>, NoneCell>>>>
    IN  { TableRecord(<<<<a, b>>, <<c, d>>>>, AccNum(50), hs),
          TableRecord(<<<<a, b>>, <<c, d>>>>, AccNum(30), Absent),
          TableRecord(<<<<a, b>>, <<c, d>>>>, AccNum(20), Absent),
          TableRecord(<<<<a, b>>, <<c, d>>, <<e, a>>>>, AccNone, <<<<>>>>),
          TableRecord(<<<<a, b>>, <<c, d>>, <<e, pa>>>>, AccAbsent, Absent),
          TableRecord(<<<<a>>, <<b, c, d>>>>, AccNum(50), Absent),
          TableRecord(<<<<a>>, <<b, c>>>>, AccNum(90), Absent),
          TableRecord(<<<<a, b, c, d, e>>>>, AccNum(90), Absent),
          TableRecord(<<<<a, b, c, d, e>>>>, AccNone, Absent),
          TableRecord(<<<<a>>, <<b>>, <<c>>, <<d>>>>, AccNum(90), Absent),
          TableRecord(<<<<pa, b>>, <<E, SP>>, <<c, d>>>>, AccNum(50), Absent),
          TableRecord(<<<<a, E, E>>, <<b, E, E>>, <<c, E, E>>>>, AccNum(50), Absent),
          TableRecord(<<<<name, b>>, <<name, c>>, <<d, e>>>>, AccNum(50), Absent),
          TableRecord(<<<<a, UA>>, <<pa, b>>>>, AccNum(50), Absent),
          TableRecord(<<<<NoneCell, a>>, <<b, c>>>>, AccNum(40), Absent),
          TableRecord(<<>>, AccNum(50), Absent),
          \* 4 of 10 cells filled; 5 of 15; 4 of 15 with an empty last row
          TableRecord(<<<<a, b, E, E, E>>, <<c, d, SP, E, NoneCell>>>>,
                      AccNum(50), Absent),
          TableRecord(<<<<a, b, E, E, E>>, <<c, d, E, E, E>>, <<e, E, E, E, E>>>>,
                      AccNum(50), Absent),
          TableRecord(<<<<a, b, E, E, E>>, <<c, d, E, E, E>>, <<E, SP, E, E, E>>>>,
                      AccNum(50), Absent) }

\* The lists of up to n Table Records; table_id is the position, as the
\* extractors number their tables.
FilterLists(n) ==
    UNION {{[i \in 1..k |->
                [table_id |-> i - 1, page |-> f[i].page, rows |-> f[i].rows,
                 shape |-> f[i].shape, accuracy |-> f[i].accuracy,
                 headers |-> f[i].headers]] :
               f \in [1..k -> FilterPool]} : k \in 0..n}

(***************************************************************************)
(* The state machine                                                       *)
(***************************************************************************)

IdleMerge ==
    /\ lattice_tables = <<>>
    /\ stream_tables = <<>>
    /\ merged_tables = <<>>

IdleFilter ==
    /\ tables = <<>>
    /\ given = <<>>
    /\ filtered = <<>>
    /\ previous = <<>>

IdleText ==
    /\ text = <<>>
    /\ text_lines = <<>>
    /\ approach = 0
    /\ candidates = <<>>
    /\ best_data = <<>>
    /\ best_score = [num |-> 0, den |-> 1]
    /\ best_from = 0
    /\ chosen = <<>>
    /\ table_data = <<>>
    /\ table_headers = <<>>

IdleScore ==
    /\ score_data = <<>>
    /\ total_score = [num |-> 0, den |-> 1]
    /\ total_again = [num |-> 0, den |-> 1]

IdleEmit ==
    /\ pdf_data = <<>>
    /\ csv_file = <<>>

IdleExtract ==
    /\ CAMELOT_AVAILABLE = FALSE
    /\ TABULA_AVAILABLE = FALSE
    /\ raised = {}

InitMerge ==
    /\ mode = "merge"
    /\ pc = "start"
    /\ lattice_tables \in MergeLists("lattice", MaxLattice)
    /\ stream_tables \in MergeLists("stream", MaxStream)
    /\ merged_tables = <<>>
    /\ IdleFilter
    /\ IdleText
    /\ IdleScore
    /\ IdleEmit
    /\ IdleExtract

\* tables = self._merge_table_results(lattice_tables, stream_tables)
Merge ==
    /\ mode = "merge"
    /\ pc = "start"
    /\ merged_tables' = MergeTableResults(lattice_tables, stream_tables)
    /\ pc' = "merged"
    /\ UNCHANGED <<mode, lattice_tables, stream_tables, filterVars, textVars,
                   scoreVars, emitVars, extractVars>>

SpecMerge == InitMerge /\ [][Merge]_vars

InitFilter ==
    /\ mode = "filter"
    /\ pc = "start"
    /\ tables \in FilterLists(MaxTables)
    /\ given = tables
    /\ filtered = <<>>
    /\ previous = <<>>
    /\ IdleMerge
    /\ IdleText
    /\ IdleScore
    /\ IdleEmit
    /\ IdleExtract

\* The dictionaries of `tables` after a call on the list `arg`, whose
\* dictionaries are among those of `tables` and are left as `after`.
UpdatedInPlace(arg, after) ==
    [i \in 1..Len(tables) |->
        IF \E k \in 1..Len(arg) : arg[k].table_id = tables[i].table_id
        THEN after[CHOOSE k \in 1..Len(arg) : arg[k].table_id = tables[i].table_id]
        ELSE tables[i]]

\* tables = self._filter_tables_by_quality(tables)
FilterQuality ==
    /\ mode = "filter"
    /\ pc = "start"
    /\ LET r == FilterTablesByQuality(tables)
       IN  /\ filtered' = r.out
           /\ tables' = r.arg
    /\ pc' = "quality"
    /\ UNCHANGED <<mode, given, previous, mergeVars, textVars, scoreVars,
                   emitVars, extractVars>>

\* the extraction-path filter applied to its own result
RefilterQuality ==
    /\ mode = "filter"
    /\ pc = "quality"
    /\ LET r == FilterTablesByQuality(filtered)
       IN  /\ filtered' = r.out
           /\ tables' = UpdatedInPlace(filtered, r.arg)
    /\ previous' = filtered
    /\ pc' = "quality_again"
    /\ UNCHANGED <<mode, given, mergeVars, textVars, scoreVars,
                   emitVars, extractVars>>

\* display_tables = filter_tables_for_display(tables)
FilterDisplay ==
    /\ mode = "filter"
    /\ pc = "start"
    /\ LET r == FilterTablesForDisplay(tables)
       IN  /\ filtered' = r.out
           /\ pc' = IF r.raised THEN "raised" ELSE "display"
    /\ UNCHANGED <<mode, tables, given, previous, mergeVars, textVars,
                   scoreVars, emitVars, extractVars>>

\* the display-path filter applied to its own result
RefilterDisplay ==
    /\ mode = "filter"
    /\ pc = "display"
    /\ LET r == FilterTablesForDisplay(filtered)
       IN  /\ filtered' = r.out
           /\ pc' = IF r.raised THEN "raised" ELSE "display_again"
    /\ previous' = filtered
    /\ UNCHANGED <<mode, tables, given, mergeVars, textVars, scoreVars,
                   emitVars, extractVars>>

NextFilter ==
    \/ FilterQuality
    \/ RefilterQuality
    \/ FilterDisplay
    \/ RefilterDisplay

SpecFilter == InitFilter /\ [][NextFilter]_vars

(***************************************************************************)
(* Text-to-Table Orchestrator: CSVConverter.text_to_table                  *)
(***************************************************************************)

\* approaches, in the order of the list
Approaches == <<"fixed_width", "delimiter", "line_grouping", "consistent_patterns">>

\* approach_func(lines) for the approach at position i
ApproachFunc(i, lines) ==
    CASE i = 1 -> TryFixedWidthColumns(lines)
      [] i = 2 -> TryDelimiterDetection(lines)
      [] i = 3 -> TryLineGrouping(lines)
      [] i = 4 -> TryConsistentPatterns(lines)

\* the lines stripped, the empty ones kept
StrippedLinesMutKeepBlank(txt) ==
    LET raw == Split(txt, <<"\n">>)
    IN  [i \in 1..Len(raw) |-> Strip(raw[i])]

\* [line.strip() for line in text.split('\n') if line.strip()]
StrippedLines(txt) ==
    LET raw == Split(txt, <<"\n">>)
        kept == SelectIdx(raw, [i \in 1..Len(raw) |-> Strip(raw[i]) # <<>>], 1)
    IN  [i \in 1..Len(kept) |-> Strip(kept[i])]

\* if data and len(data) > 1
Scored(rows) == rows # <<>> /\ Len(rows) > 1

\* score >= best_score
ImprovesMutAtLeast(score, best) == ScoreAtLeast(score, best)

\* if score > best_score
Improves(score, best) == ScoreGreater(score, best)

\* one row per line, cut into its words
LineRowsMutWords(lines) == [i \in 1..Len(lines) |-> Words(lines[i], 1, 1)]

\* [[line] for line in lines]
LineRows(lines) == [i \in 1..Len(lines) |-> <<lines[i]>>]

\* the choice of the rows with the first row of best_data left out
ChooseRowsMutTail(best, lines) ==
    LET first == IF best # <<>> THEN Tail(best) ELSE LineRows(lines)
    IN  IF \/ first = <<>>
           \/ Len(first) <= 1
           \/ \A r \in 1..Len(first) : Len(first[r]) <= 1
        THEN LineRows(lines)
        ELSE first

\* data = best_data if best_data else [[line] for line in lines], and the
\* simple line-based conversion when that has at most one row or no row of
\* more than one cell.  best_data is <<>> while it is None.
ChooseRows(best, lines) ==
    LET first == IF best # <<>> THEN best ELSE LineRows(lines)
    IN  IF \/ first = <<>>
           \/ Len(first) <= 1
           \/ \A r \in 1..Len(first) : Len(first[r]) <= 1
        THEN LineRows(lines)
        ELSE first

\* max(len(row) for row in data) if data else 0
RECURSIVE MaxCols(_)
MaxCols(rows) ==
    IF rows = <<>> THEN 0 ELSE Max(Len(Head(rows)), MaxCols(Tail(rows)))

\* f"Column_{i+1}" for i in range(max_cols)
ColumnHeaders(max_cols) ==
    [i \in 1..max_cols |-> <<"C", "o", "l", "u", "m", "n", "_">> \o IntToStr(i)]

\* a row left as it is
PadRowMutNone(row, max_cols) == row

\* data[i].extend([''] * (max_cols - len(data[i])))
PadRow(row, max_cols) ==
    IF Len(row) < max_cols
    THEN row \o [k \in 1..(max_cols - Len(row)) |-> <<>>]
    ELSE row

\* the loop `for approach_func in approaches` from position i on:
\* best_data after the last approach
RECURSIVE BestData(_, _, _, _)
BestData(lines, i, best, score) ==
    IF i > Len(Approaches) THEN best
    ELSE LET rows == ApproachFunc(i, lines)
         IN  IF Scored(rows) /\ Improves(ScoreTableStructure(rows), score)
             THEN BestData(lines, i + 1, rows, ScoreTableStructure(rows))
             ELSE BestData(lines, i + 1, best, score)

(***************************************************************************)
(* Tabular Output Emitter: pd.DataFrame and DataFrame.to_csv as            *)
(* text_to_table and convert_pdf_to_csv use them, and                      *)
(* CSVConverter.convert_pdf_to_csv                                         *)
(***************************************************************************)

\* pd.DataFrame(data, columns=headers)
DataFrame(rows, columns) == [columns |-> columns, rows |-> rows]

\* df.to_csv(csv_path, index=False): the header row, then one row for every
\* row of the frame, a missing value written as the empty field
ToCsv(df) ==
    <<df.columns>> \o
    [r \in 1..Len(df.rows) |->
        [c \in 1..Len(df.rows[r]) |->
            IF df.rows[r][c] = NoneCell THEN <<>> ELSE df.rows[r][c]]]

\* text_to_table as a whole: the file it writes
TextToTable(txt) ==
    LET lines == StrippedLines(txt)
        rows == ChooseRows(BestData(lines, 1, <<>>, Rational(0, 1)), lines)
        max_cols == MaxCols(rows)
    IN  ToCsv(DataFrame([i \in 1..Len(rows) |-> PadRow(rows[i], max_cols)],
                        ColumnHeaders(max_cols)))

\* len(rows) < 2 or (len(rows) > 0 and len(rows[0]) < 2)
EmitTiny(rows) == Len(rows) < 2 \/ (Len(rows) > 0 /\ Len(rows[1]) < 2)

\* pd.DataFrame(rows): as many columns as the longest row has cells, the
\* shorter rows filled with missing values
FrameRows(rows) ==
    [r \in 1..Len(rows) |->
        rows[r] \o [k \in 1..(MaxCols(rows) - Len(rows[r])) |-> NoneCell]]

\* df.size
FrameSize(df) == Len(df.rows) * Len(df.columns)

\* df.fillna('')
FillNa(rows) ==
    [r \in 1..Len(rows) |->
        [c \in 1..Len(rows[r]) |->
            IF rows[r][c] = NoneCell THEN <<>> ELSE rows[r][c]]]

\* the column names given to a frame of `width` columns
FrameColumns(names, width) ==
    IF width = Len(names) THEN names
    ELSE IF Len(names) > width THEN Take(names, width)
    ELSE names \o ColumnHeaders(width - Len(names))

\* One round of `for table in pdf_data['tables']`: whether the table adds
\* a frame to data_frames, and the frame.
TableFrame(t) ==
    LET all_rows == RowsOf(t)
        given_headers == IF t.headers = Absent THEN <<>> ELSE t.headers[1]
        from_rows == given_headers = <<>> /\ all_rows # <<>>
        first_headers == IF from_rows THEN all_rows[1] ELSE given_headers
        rows == IF from_rows THEN Tail(all_rows) ELSE all_rows
        valid_headers == IF first_headers = <<>>
                         THEN ColumnHeaders(MaxCols(rows))
                         ELSE first_headers
        width == MaxCols(rows)
        df == DataFrame(FillNa(FrameRows(rows)),
                        FrameColumns(valid_headers, width))
    IN  [kept |-> /\ ~EmitTiny(all_rows)
                  /\ Len(rows) * width > 0
                  /\ Len(rows) * width > 4,
         df |-> df]

\* data_frames
DataFrames(ts) ==
    LET frames == [i \in 1..Len(ts) |-> TableFrame(ts[i])]
        kept == SelectIdx(frames, [i \in 1..Len(frames) |-> frames[i].kept], 1)
    IN  [i \in 1..Len(kept) |-> kept[i].df]

\* max(data_frames, key=lambda df: df.size): the first frame of the
\* greatest size
RECURSIVE BestFrame(_)
BestFrame(frames) ==
    IF Len(frames) = 1 THEN frames[1]
    ELSE LET rest == BestFrame(Tail(frames))
         IN  IF FrameSize(frames[1]) >= FrameSize(rest) THEN frames[1] ELSE rest

\* 'key' in pdf_data and pdf_data[key], for a value that is a sequence:
\* the value, <<>> when the key is absent
ValueOf(present) == IF present = Absent THEN <<>> ELSE present[1]

\* ["Metadata_Key", "Metadata_Value"]
MetadataHeader ==
    << <<"M", "e", "t", "a", "d", "a", "t", "a", "_", "K", "e", "y">>,
       <<"M", "e", "t", "a", "d", "a", "t", "a", "_", "V", "a", "l", "u", "e">> >>

\* the file of the fallback without the metadata items
MetadataFileMutHeaderOnly(metadata) == <<MetadataHeader>>

\* the file of the fallback: the header and one row per metadata item
MetadataFile(metadata) ==
    <<MetadataHeader>> \o
    [i \in 1..Len(metadata) |-> <<metadata[i][1], metadata[i][2]>>]

\* which of the three outputs convert_pdf_to_csv writes
EmitPath(pdf) ==
    IF DataFrames(ValueOf(pdf.tables)) # <<>> THEN "tables"
    ELSE IF ValueOf(pdf.text) # <<>> THEN "text"
    ELSE "metadata"

(***************************************************************************)
(* Inputs of the text conversion                                           *)
(***************************************************************************)

MaxLines == 3

\* a line of more than HeaderMaxLen characters that starts in lower case
\* and holds a number
LongLine == [i \in 1..HeaderMaxLen |-> "x"] \o <<" ", "1">>

\* The lines the texts are made of: comma-separated lines of one and of
\* several shapes, one with an empty field, space-aligned columns, blanks
\* around a line, a blank line, and a long line.
LinePool ==
    { <<"a", ",", "b", ",", "c">>,
      <<"1", ",", "2", ",", "3">>,
      <<"a", ",", ",", "b">>,
      <<"a", " ", "1", " ", "2">>,
      <<" ", "b", " ", "3", " ", "4", " ">>,
      <<>>,
      LongLine }

\* '\n'.join(ls)
RECURSIVE JoinLines(_)
JoinLines(ls) ==
    IF ls = <<>> THEN <<>>
    ELSE IF Len(ls) = 1 THEN ls[1]
    ELSE ls[1] \o <<"\n">> \o JoinLines(Tail(ls))

\* "Name Age", "Alice 30", "Bob 25", "Cara 40"
NameAgeLines ==
    << <<"N", "a", "m", "e", " ", "A", "g", "e">>,
       <<"A", "l", "i", "c", "e", " ", "3", "0">>,
       <<"B", "o", "b", " ", "2", "5">>,
       <<"C", "a", "r", "a", " ", "4", "0">> >>

\* "a,b,c", "1,2,3", "4,5,6"
CommaLines ==
    << <<"a", ",", "b", ",", "c">>,
       <<"1", ",", "2", ",", "3">>,
       <<"4", ",", "5", ",", "6">> >>

\* DelimiterSample lines "a,b" and one more line "a,b,c" after them
LateCommaLines ==
    [i \in 1..(DelimiterSample + 1) |->
        IF i <= DelimiterSample THEN <<"a", ",", "b">>
        ELSE <<"a", ",", "b", ",", "c">>]

\* two lines of blanks
BlankLines == << <<" ">>, <<"\t", " ">> >>

\* three lines "a,b:c:d": comma gives 2 columns, colon 3
ColonLines == [i \in 1..3 |-> <<"a", ",", "b", ":", "c", ":", "d">>]

\* "a,b", "a,b", "a;b": one signature, and no delimiter splits all three
\* into the same number of columns above 1
MixedLines == << <<"a", ",", "b">>, <<"a", ",", "b">>, <<"a", ";", "b">> >>

\* PatternSample lines "-,-" and after them "," and "-;-", of the same
\* signature
LatePatternLines ==
    [i \in 1..(PatternSample + 2) |->
        IF i <= PatternSample THEN <<"-", ",", "-">>
        ELSE IF i = PatternSample + 1 THEN <<",">>
        ELSE <<"-", ";", "-">>]

\* FixedWidthSample lines "ab c" and after them "x", "xb" and "de f g"
LateShortLines ==
    [i \in 1..(FixedWidthSample + 3) |->
        IF i <= FixedWidthSample THEN <<"a", "b", " ", "c">>
        ELSE IF i = FixedWidthSample + 1 THEN <<"x">>
        ELSE IF i = FixedWidthSample + 2 THEN <<"x", "b">>
        ELSE <<"d", "e", " ", "f", " ", "g">>]

\* "ab 1", "cd 2", "ef 3": two aligned columns, one of them numeric
ShortPairLines ==
    << <<"a", "b", " ", "1">>, <<"c", "d", " ", "2">>, <<"e", "f", " ", "3">> >>

\* "a  b", "a  b", "x", "ab c": three lines of one signature without a
\* common delimiter, and a line of another signature
OddLineOutLines ==
    << <<"a", " ", " ", "b">>, <<"a", " ", " ", "b">>, <<"x">>,
       <<"a", "b", " ", "c">> >>

\* "1,2" three times: one signature, too few commas for the delimiter floor
ShortCommaLines ==
    << <<"1", ",", "2">>, <<"1", ",", "2">>, <<"1", ",", "2">> >>

\* line lists beyond the pool
SpecialLines ==
    {NameAgeLines, CommaLines, LateCommaLines, BlankLines, ColonLines,
     MixedLines, LatePatternLines, LateShortLines, ShortPairLines,
     OddLineOutLines, ShortCommaLines}

\* the line lists a generator is called on
LineLists == SeqUpTo(LinePool, MaxLines) \cup SpecialLines

\* the texts text_to_table is called on
Texts == {JoinLines(ls) : ls \in LineLists}

(***************************************************************************)
(* Inputs of the Structure Scorer                                          *)
(***************************************************************************)

MaxScoreRows == 2

MaxRowLen == 12

\* a row of n cells of which the first k hold a digit
ScoreRow(n, k) == [i \in 1..n |-> IF i <= k THEN <<"1">> ELSE <<"a">>]

\* rows of every length up to MaxRowLen: without a number, with one, and
\* with a number in every cell
ScoreRows ==
    {ScoreRow(n, k) : n \in 0..MaxRowLen, k \in {0, 1, MaxRowLen}}

\* tables of 21 rows, where row_count / 10.0 exceeds 2.0: six cells in
\* every row, without a number or with a number in every cell, and the
\* latter with an empty first row
TallTables ==
    {[i \in 1..21 |-> ScoreRow(6, 0)], [i \in 1..21 |-> ScoreRow(6, 6)],
     [i \in 1..21 |-> IF i = 1 THEN ScoreRow(0, 0) ELSE ScoreRow(6, 6)]}

\* the Candidate Tables the scorer is called on
ScoreTables == SeqUpTo(ScoreRows, MaxScoreRows) \cup TallTables

(***************************************************************************)
(* State machine of the text conversion                                    *)
(***************************************************************************)

InitText ==
    /\ mode = "text"
    /\ pc = "start"
    /\ text \in Texts
    /\ text_lines = <<>>
    /\ approach = 0
    /\ candidates = <<>>
    /\ best_data = <<>>
    /\ best_score = Rational(0, 1)
    /\ best_from = 0
    /\ chosen = <<>>
    /\ table_data = <<>>
    /\ table_headers = <<>>
    /\ IdleMerge
    /\ IdleFilter
    /\ IdleScore
    /\ IdleEmit
    /\ IdleExtract

\* lines = [...]; best_data = None; best_score = 0
SplitLines ==
    /\ mode = "text"
    /\ pc = "start"
    /\ text_lines' = StrippedLines(text)
    /\ approach' = 1
    /\ pc' = "loop"
    /\ UNCHANGED <<mode, text, candidates, best_data, best_score, best_from,
                   chosen, table_data, table_headers,
                   mergeVars, filterVars, scoreVars, emitVars, extractVars>>

\* one round of `for approach_func in approaches`
TryApproach ==
    /\ mode = "text"
    /\ pc = "loop"
    /\ approach <= Len(Approaches)
    /\ LET rows == ApproachFunc(approach, text_lines)
           score == ScoreTableStructure(rows)
       IN  /\ candidates' = Append(candidates, rows)
           /\ IF Scored(rows) /\ Improves(score, best_score)
              THEN /\ best_score' = score
                   /\ best_data' = rows
                   /\ best_from' = approach
              ELSE UNCHANGED <<best_score, best_data, best_from>>
    /\ approach' = approach + 1
    /\ pc' = IF approach = Len(Approaches) THEN "best" ELSE "loop"
    /\ UNCHANGED <<mode, text, text_lines, chosen, table_data, table_headers,
                   mergeVars, filterVars, scoreVars, emitVars, extractVars>>

\* the choice between best_data and the line-based conversion
ChooseData ==
    /\ mode = "text"
    /\ pc = "best"
    /\ chosen' = ChooseRows(best_data, text_lines)
    /\ pc' = "chosen"
    /\ UNCHANGED <<mode, text, text_lines, approach, candidates, best_data,
                   best_score, best_from, table_data, table_headers,
                   mergeVars, filterVars, scoreVars, emitVars, extractVars>>

\* max_cols, headers and the padding of the rows
PadRows ==
    /\ mode = "text"
    /\ pc = "chosen"
    /\ LET max_cols == MaxCols(chosen)
       IN  /\ table_headers' = ColumnHeaders(max_cols)
           /\ table_data' = [i \in 1..Len(chosen) |-> PadRow(chosen[i], max_cols)]
    /\ pc' = "padded"
    /\ UNCHANGED <<mode, text, text_lines, approach, candidates, best_data,
                   best_score, best_from, chosen,
                   mergeVars, filterVars, scoreVars, emitVars, extractVars>>

\* df = pd.DataFrame(data, columns=headers); df.to_csv(csv_path, index=False)
WriteCsv ==
    /\ mode = "text"
    /\ pc = "padded"
    /\ csv_file' = ToCsv(DataFrame(table_data, table_headers))
    /\ pc' = "written"
    /\ UNCHANGED <<mode, pdf_data, textVars, mergeVars, filterVars, scoreVars,
                   extractVars>>

NextText ==
    \/ SplitLines
    \/ TryApproach
    \/ ChooseData
    \/ PadRows
    \/ WriteCsv

SpecText == InitText /\ [][NextText]_vars

(***************************************************************************)
(* State machine of a generator called on its own                          *)
(***************************************************************************)

InitLines ==
    /\ mode = "lines"
    /\ pc = "start"
    /\ text_lines \in LineLists
    /\ text = <<>>
    /\ approach = 0
    /\ candidates = <<>>
    /\ best_data = <<>>
    /\ best_score = Rational(0, 1)
    /\ best_from = 0
    /\ chosen = <<>>
    /\ table_data = <<>>
    /\ table_headers = <<>>
    /\ IdleMerge
    /\ IdleFilter
    /\ IdleScore
    /\ IdleEmit
    /\ IdleExtract

\* data = approach_func(lines) for one of the four generators
CallApproach(i) ==
    /\ mode = "lines"
    /\ pc = "start"
    /\ approach' = i
    /\ candidates' = <<ApproachFunc(i, text_lines)>>
    /\ pc' = "returned"
    /\ UNCHANGED <<mode, text, text_lines, best_data, best_score, best_from,
                   chosen, table_data, table_headers,
                   mergeVars, filterVars, scoreVars, emitVars, extractVars>>

NextLines == \E i \in 1..Len(Approaches) : CallApproach(i)

SpecLines == InitLines /\ [][NextLines]_vars

(***************************************************************************)
(* State machine of the Structure Scorer                                   *)
(***************************************************************************)

InitScore ==
    /\ mode = "score"
    /\ pc = "start"
    /\ score_data \in ScoreTables
    /\ total_score = Rational(0, 1)
    /\ total_again = Rational(0, 1)
    /\ IdleMerge
    /\ IdleFilter
    /\ IdleText
    /\ IdleEmit
    /\ IdleExtract

\* score = CSVConverter._score_table_structure(data)
Score ==
    /\ mode = "score"
    /\ pc = "start"
    /\ total_score' = ScoreTableStructure(score_data)
    /\ pc' = "scored"
    /\ UNCHANGED <<mode, score_data, total_again, mergeVars, filterVars, textVars,
                   emitVars, extractVars>>

\* a second call on the same table
ScoreAgain ==
    /\ mode = "score"
    /\ pc = "scored"
    /\ total_again' = ScoreTableStructure(score_data)
    /\ pc' = "scored_again"
    /\ UNCHANGED <<mode, score_data, total_score, mergeVars, filterVars, textVars,
                   emitVars, extractVars>>

NextScore ==
    \/ Score
    \/ ScoreAgain

SpecScore == InitScore /\ [][NextScore]_vars

(***************************************************************************)
(* Inputs of the emitter                                                   *)
(***************************************************************************)

MaxEmitTables == 2

\* The tables of pdf_data: one that is too small, one of a single row, one
\* with headers, and one without headers and with rows of several lengths.
EmitTablePool ==
    LET a == <<"a">>
        b == <<"b">>
        c == <<"c">>
        d == <<"d">>
        e == <<"e">>
    IN  { TableRecord(<<<<a, b>>, <<c, d>>>>, AccAbsent, <<<<d, e>>>>),
          TableRecord(<<<<a, b, c, d, e>>>>, AccAbsent, Absent),
          TableRecord(<<<<a, b>>, <<c, d>>, <<e, a>>>>, AccAbsent, <<<<d>>>>),
          TableRecord(<<<<a, b>>, <<c, d, e>>, <<a>>, <<b, NoneCell>>>>,
                      AccAbsent, Absent) }

\* pdf_data['text']: absent, empty, blank, one line, three lines
EmitTexts ==
    { Absent,
      <<<<>>>>,
      <<<<" ", "\n", "\t">>>>,
      <<<<"a">>>>,
      <<JoinLines(CommaLines)>> }

\* pdf_data['metadata']: absent, empty, one item
EmitMetadata ==
    { Absent,
      <<<<>>>>,
      << << << <<"t">>, <<"x">> >> >> >> }

\* pdf_data['tables']: absent, or a list of up to MaxEmitTables tables
EmitTables ==
    {Absent} \cup {<<ts>> : ts \in SeqUpTo(EmitTablePool, MaxEmitTables)}

(***************************************************************************)
(* State machine of the emitter                                            *)
(***************************************************************************)

InitEmit ==
    /\ mode = "emit"
    /\ pc = "start"
    /\ pdf_data \in [tables : EmitTables, text : EmitTexts,
                      metadata : EmitMetadata]
    /\ csv_file = <<>>
    /\ IdleMerge
    /\ IdleFilter
    /\ IdleText
    /\ IdleScore
    /\ IdleExtract

\* convert_pdf_to_csv when a table yields a frame: best_df.to_csv(...)
EmitBestFrame ==
    /\ mode = "emit"
    /\ pc = "start"
    /\ EmitPath(pdf_data) = "tables"
    /\ csv_file' = ToCsv(BestFrame(DataFrames(ValueOf(pdf_data.tables))))
    /\ pc' = "written"
    /\ UNCHANGED <<mode, pdf_data, mergeVars, filterVars, textVars, scoreVars,
                   extractVars>>

\* convert_pdf_to_csv when no table yields a frame and there is text:
\* return CSVConverter.text_to_table(pdf_data['text'], ...)
EmitText ==
    /\ mode = "emit"
    /\ pc = "start"
    /\ EmitPath(pdf_data) = "text"
    /\ csv_file' = TextToTable(ValueOf(pdf_data.text))
    /\ pc' = "written"
    /\ UNCHANGED <<mode, pdf_data, mergeVars, filterVars, textVars, scoreVars,
                   extractVars>>

\* convert_pdf_to_csv otherwise: the metadata header and the metadata items
EmitMetadataRows ==
    /\ mode = "emit"
    /\ pc = "start"
    /\ EmitPath(pdf_data) = "metadata"
    /\ csv_file' = MetadataFile(ValueOf(pdf_data.metadata))
    /\ pc' = "written"
    /\ UNCHANGED <<mode, pdf_data, mergeVars, filterVars, textVars, scoreVars,
                   extractVars>>

NextEmit ==
    \/ EmitBestFrame
    \/ EmitText
    \/ EmitMetadataRows

SpecEmit == InitEmit /\ [][NextEmit]_vars

(***************************************************************************)
(* Table extraction: TableExtractor.extract_tables                         *)
(***************************************************************************)

MaxExtracted == 2

\* One table as _extract_with_camelot and _extract_with_tabula build it:
\* headers and rows of the frame, shape = df.shape.  origin and table_id
\* stand for the identity of the Python object.
ExtractedTable(page, rows, accuracy) ==
    [origin |-> "", table_id |-> 0, page |-> <<page>>, rows |-> rows,
     shape |-> ShapeOfRows(rows), accuracy |-> accuracy,
     headers |-> <<rows[1]>>]

\* The tables the lattice call finds: one the quality filter accepts (6
\* cells), one it rejects as mostly empty (9 cells) and one it rejects for
\* its accuracy (6 cells), all of page 1, and an accepted one of page 2.
LatticePool ==
    LET E == <<>>
        a == <<"a">>
        b == <<"b">>
        c == <<"c">>
        d == <<"d">>
        e == <<"e">>
    IN  { ExtractedTable(1, <<<<a, b>>, <<c, d>>, <<e, a>>>>, AccNum(90)),
          ExtractedTable(1, <<<<a, E, E>>, <<b, E, E>>, <<c, E, E>>>>, AccNum(90)),
          ExtractedTable(1, <<<<a, b>>, <<c, d>>, <<e, a>>>>, AccNum(20)),
          ExtractedTable(2, <<<<a, b>>, <<c, d>>>>, AccNum(90)) }

\* The tables the stream call finds: accepted ones of 4 and of 15 cells on
\* page 1, and one of a single row on page 2.
StreamPool ==
    LET a == <<"a">>
        b == <<"b">>
        c == <<"c">>
        d == <<"d">>
        e == <<"e">>
    IN  { ExtractedTable(1, <<<<a, b>>, <<c, d>>>>, AccNum(50)),
          ExtractedTable(1, <<<<a, b, c, d, e>>, <<b, c, d, e, a>>,
                              <<c, d, e, a, b>>>>, AccNum(50)),
          ExtractedTable(2, <<<<a, b, c>>>>, AccNum(50)) }

\* The tables tabula finds: "page": -1 and "accuracy": None.
TabulaPool ==
    LET a == <<"a">>
        b == <<"b">>
        c == <<"c">>
        d == <<"d">>
    IN  { ExtractedTable(-1, <<<<a, b>>, <<c, d>>>>, AccNone),
          ExtractedTable(-1, <<<<a, b>>>>, AccNone) }

\* The lists an extraction call returns: up to MaxExtracted tables of its
\* pool, "table_id": i in the order found.
ExtractedLists(origin, pool) ==
    UNION {{[i \in 1..k |-> [f[i] EXCEPT !.origin = origin, !.table_id = i - 1]] :
               f \in [1..k -> pool]} : k \in 0..MaxExtracted}

\* TableExtractor.__init__ raises ImportError when neither library is
\* available, so extract_tables runs with at least one of them.
InitExtract ==
    /\ mode = "extract"
    /\ pc = "start"
    /\ CAMELOT_AVAILABLE \in BOOLEAN
    /\ TABULA_AVAILABLE \in BOOLEAN
    /\ CAMELOT_AVAILABLE \/ TABULA_AVAILABLE
    /\ raised = {}
    /\ IdleMerge
    /\ IdleFilter
    /\ IdleText
    /\ IdleScore
    /\ IdleEmit

\* lattice_tables = self._extract_with_camelot(..., flavour='lattice'); an
\* exception leaves the outer try for its except branch
ExtractLattice ==
    /\ mode = "extract"
    /\ pc = "start"
    /\ CAMELOT_AVAILABLE
    /\ \/ /\ lattice_tables' \in ExtractedLists("lattice", LatticePool)
          /\ pc' = "lattice_done"
          /\ UNCHANGED raised
       \/ /\ raised' = raised \cup {"lattice"}
          /\ pc' = "camelot_failed"
          /\ UNCHANGED lattice_tables
    /\ UNCHANGED <<mode, stream_tables, merged_tables, filterVars, textVars,
                   scoreVars, emitVars, CAMELOT_AVAILABLE, TABULA_AVAILABLE>>

\* the inner try: stream_tables = self._extract_with_camelot(...,
\* flavour='stream'); its except branch prints and assigns nothing, so
\* after an exception the name stream_tables is not bound
ExtractStream ==
    /\ mode = "extract"
    /\ pc = "lattice_done"
    /\ \/ /\ stream_tables' \in ExtractedLists("stream", StreamPool)
          /\ pc' = "stream_done"
          /\ UNCHANGED raised
       \/ /\ raised' = raised \cup {"stream"}
          /\ pc' = "stream_unbound"
          /\ UNCHANGED stream_tables
    /\ UNCHANGED <<mode, lattice_tables, merged_tables, filterVars, textVars,
                   scoreVars, emitVars, CAMELOT_AVAILABLE, TABULA_AVAILABLE>>

\* tables = self._merge_table_results(lattice_tables, stream_tables);
\* tables = self._filter_tables_by_quality(tables); then the test
\* `if not tables and TABULA_AVAILABLE`
MergeAndFilter ==
    /\ mode = "extract"
    /\ pc = "stream_done"
    /\ merged_tables' = MergeTableResults(lattice_tables, stream_tables)
    /\ tables' = FilterTablesByQuality(merged_tables').out
    /\ pc' = IF tables' = <<>> /\ TABULA_AVAILABLE THEN "tabula_retry"
             ELSE "returned"
    /\ UNCHANGED <<mode, lattice_tables, stream_tables, given, filtered,
                   previous, textVars, scoreVars, emitVars, extractVars>>

\* the same statement when stream_tables is not bound: reading the name
\* raises UnboundLocalError, which the outer except branch catches
MergeUnbound ==
    /\ mode = "extract"
    /\ pc = "stream_unbound"
    /\ raised' = raised \cup {"merge"}
    /\ pc' = "camelot_failed"
    /\ UNCHANGED <<mode, mergeVars, filterVars, textVars, scoreVars, emitVars,
                   CAMELOT_AVAILABLE, TABULA_AVAILABLE>>

\* tables = self._extract_with_tabula(...); tables =
\* self._filter_tables_by_quality(tables) inside try/except: an exception
\* leaves tables as it was
TabulaTables(from, to) ==
    /\ pc = from
    /\ \/ /\ \E found \in ExtractedLists("tabula", TabulaPool) :
                 tables' = FilterTablesByQuality(found).out
          /\ UNCHANGED raised
       \/ /\ raised' = raised \cup {"tabula"}
          /\ UNCHANGED tables
    /\ pc' = to
    /\ UNCHANGED <<mode, mergeVars, given, filtered, previous, textVars,
                   scoreVars, emitVars, CAMELOT_AVAILABLE, TABULA_AVAILABLE>>

\* `if not tables and TABULA_AVAILABLE` after the camelot tables were
\* filtered
TabulaRetry ==
    /\ mode = "extract"
    /\ TabulaTables("tabula_retry", "returned")

\* the outer except branch: `if TABULA_AVAILABLE`, else tables stays []
TabulaFallback ==
    /\ mode = "extract"
    /\ IF TABULA_AVAILABLE
       THEN TabulaTables("camelot_failed", "returned")
       ELSE /\ pc = "camelot_failed"
            /\ pc' = "returned"
            /\ UNCHANGED <<mode, mergeVars, filterVars, textVars, scoreVars,
                           emitVars, extractVars>>

\* `elif TABULA_AVAILABLE`: an exception returns []
TabulaOnly ==
    /\ mode = "extract"
    /\ ~CAMELOT_AVAILABLE
    /\ TABULA_AVAILABLE
    /\ TabulaTables("start", "returned")

NextExtract ==
    \/ ExtractLattice
    \/ ExtractStream
    \/ MergeAndFilter
    \/ MergeUnbound
    \/ TabulaRetry
    \/ TabulaFallback
    \/ TabulaOnly

SpecExtract == InitExtract /\ [][NextExtract]_vars

(***************************************************************************)
(* Claims about table extraction (checked under SpecExtract)               *)
(***************************************************************************)

\* extract_tables has returned
ExtractReturned == mode = "extract" /\ pc = "returned"

\* the lattice call succeeded and only the stream call raised
StreamFailedAlone == mode = "extract" /\ "stream" \in raised

\* C26: when the lattice extraction succeeds and the stream extraction
\* raises, the lattice tables are not lost: the except branch with the
\* Tabula fallback is not entered, and the lattice tables that pass the
\* quality filter are what extract_tables returns.
C26_LatticeKeptWhenStreamFails ==
    StreamFailedAlone =>
        /\ pc # "camelot_failed"
        /\ "merge" \notin raised
        /\ (ExtractReturned /\ FilterTablesByQuality(lattice_tables).out # <<>>) =>
               tables = FilterTablesByQuality(lattice_tables).out

\* the quality filter accepts the table when it is given alone
AcceptableAlone(table) == FilterTablesByQuality(<<table>>).out # <<>>

\* both camelot calls returned, and their tables were merged and filtered
MergedAndFiltered ==
    /\ mode = "extract"
    /\ pc \in {"tabula_retry", "returned"}
    /\ CAMELOT_AVAILABLE
    /\ raised \cap {"lattice", "stream"} = {}

\* no lattice table of the page survives the quality filter
NoLatticeSurvives(page) ==
    \A j \in 1..Len(lattice_tables) :
        PageOf(lattice_tables[j]) = page => ~AcceptableAlone(lattice_tables[j])

\* C29: a stream table that passes the quality filter by itself is in the
\* result of extract_tables whenever no lattice table of its page survives
\* the filter.
C29_StreamNotSuppressedByRejected ==
    MergedAndFiltered =>
        \A i \in 1..Len(stream_tables) :
            (AcceptableAlone(stream_tables[i])
                 /\ NoLatticeSurvives(PageOf(stream_tables[i]))) =>
                \E k \in 1..Len(tables) : tables[k] = stream_tables[i]

(***************************************************************************)
(* Claims about the Result Merger (checked under SpecMerge)                *)
(***************************************************************************)

Merged == mode = "merge" /\ pc = "merged"

\* The positions of merged_tables that hold table t (an object of one of the
\* two input lists, identified by origin and table_id).
Occurrences(t) == {k \in 1..Len(merged_tables) : merged_tables[k] = t}

LatticeOnPage(p) ==
    {i \in 1..Len(lattice_tables) : PageOf(lattice_tables[i]) = p}

\* C1: every table of the first (lattice) list is in the merged result, at
\* its own position: no lattice table is removed or replaced by a stream
\* table, whatever the second list holds.
C1_LatticeNeverDropped ==
    Merged =>
        /\ Len(merged_tables) >= Len(lattice_tables)
        /\ \A i \in 1..Len(lattice_tables) :
              merged_tables[i] = lattice_tables[i]

\* C1 witness: a merge in which a stream table with more cells than a
\* lattice table of the same page was appended, the lattice table kept.
C1_Witness ==
    /\ Merged
    /\ \E i \in 1..Len(lattice_tables), j \in 1..Len(stream_tables) :
          /\ PageOf(lattice_tables[i]) = PageOf(stream_tables[j])
          /\ CellCount(stream_tables[j]) > CellCount(lattice_tables[i])
          /\ Occurrences(stream_tables[j]) # {}
          /\ Occurrences(lattice_tables[i]) # {}

\* C8: with both lists non-empty, a stream table of a page that no lattice
\* table and no earlier stream table has is appended; a stream table of a
\* page that lattice tables have is appended exactly when every lattice
\* table of that page has fewer cells than 70% of the stream table's cells.
C8_AppendRule ==
    (Merged /\ lattice_tables # <<>> /\ stream_tables # <<>>) =>
        \A j \in 1..Len(stream_tables) :
            LET st == stream_tables[j]
                p == IF st.page = <<>> THEN -1 ELSE st.page[1]
                cells == st.shape[1] * st.shape[2]
                onPage == LatticeOnPage(p)
                earlier == {k \in 1..(j - 1) : PageOf(stream_tables[k]) = p}
            IN  /\ (onPage = {} /\ earlier = {}) => Occurrences(st) # {}
                /\ onPage # {} =>
                      (Occurrences(st) # {} <=>
                         \A i \in onPage :
                            10 * lattice_tables[i].shape[1]
                               * lattice_tables[i].shape[2] < 7 * cells)

\* C8 witness: the example of the specification, a lattice table of shape
\* (5,3) (15 cells) and a stream table of shape (5,5) (25 cells) on one
\* page: 15 < 17.5, and the result holds both.
C8_Witness ==
    /\ Merged
    /\ Len(lattice_tables) = 1 /\ Len(stream_tables) = 1
    /\ lattice_tables[1].shape = <<5, 3>>
    /\ stream_tables[1].shape = <<5, 5>>
    /\ lattice_tables[1].page = stream_tables[1].page
    /\ merged_tables = <<lattice_tables[1], stream_tables[1]>>

\* C9 as stated: for every page, the merged result holds at most one table
\* that came from the stream list.
C9_StreamOncePerPage ==
    Merged =>
        \A k1, k2 \in 1..Len(merged_tables) :
            (/\ merged_tables[k1].origin = "stream"
             /\ merged_tables[k2].origin = "stream"
             /\ PageOf(merged_tables[k1]) = PageOf(merged_tables[k2]))
            => k1 = k2

\* C9 amended: every stream table occurs at most once in the merged result,
\* and with both lists non-empty every stream table of a page that has no
\* lattice table is in the result, however many stream tables share that
\* page.
C9_StreamTableAddedOnce ==
    Merged =>
        \A j \in 1..Len(stream_tables) :
            /\ Cardinality(Occurrences(stream_tables[j])) <= 1
            /\ (lattice_tables # <<>>
                  /\ LatticeOnPage(PageOf(stream_tables[j])) = {})
               => Cardinality(Occurrences(stream_tables[j])) = 1

\* C9 witness: both lists non-empty and two stream tables of one page that
\* has no lattice table, both in the result.
C9_Witness ==
    /\ Merged
    /\ lattice_tables # <<>>
    /\ \E j1, j2 \in 1..Len(stream_tables) :
          /\ j1 # j2
          /\ PageOf(stream_tables[j1]) = PageOf(stream_tables[j2])
          /\ LatticeOnPage(PageOf(stream_tables[j1])) = {}
          /\ Occurrences(stream_tables[j1]) # {}
          /\ Occurrences(stream_tables[j2]) # {}

\* C24: if either input list is empty the Result Merger returns the other
\* list unchanged; otherwise the result is the whole first list in its
\* order followed by tables of the second list in their relative order,
\* each at most once, and holds no table that is in neither input.
C24_MergedStructure ==
    Merged =>
        /\ stream_tables = <<>> => merged_tables = lattice_tables
        /\ lattice_tables = <<>> => merged_tables = stream_tables
        /\ (stream_tables # <<>> /\ lattice_tables # <<>>) =>
               /\ Len(merged_tables) >= Len(lattice_tables)
               /\ SubSeq(merged_tables, 1, Len(lattice_tables)) = lattice_tables
               /\ \A k \in (Len(lattice_tables) + 1)..Len(merged_tables) :
                      \E j \in 1..Len(stream_tables) :
                          merged_tables[k] = stream_tables[j]
               /\ \A k, l \in (Len(lattice_tables) + 1)..Len(merged_tables) :
                      k < l => \E i, j \in 1..Len(stream_tables) :
                                   /\ i < j
                                   /\ merged_tables[k] = stream_tables[i]
                                   /\ merged_tables[l] = stream_tables[j]

\* Two lattice tables and two stream tables were merged: the first stream
\* table was left out and the second follows the lattice tables.
C24_Witness ==
    /\ Merged
    /\ Len(lattice_tables) = 2 /\ Len(stream_tables) = 2
    /\ merged_tables = lattice_tables \o <<stream_tables[2]>>

\* Two stream tables were both added behind the lattice table, in the
\* order of the stream list.
C24_WitnessBothAdded ==
    /\ Merged
    /\ Len(lattice_tables) = 1 /\ Len(stream_tables) = 2
    /\ merged_tables = lattice_tables \o stream_tables

(***************************************************************************)
(* Claims about the Table Quality Filter (checked under SpecFilter)        *)
(***************************************************************************)

\* the table of the argument with this table_id is in the returned list
Returned(id) == \E k \in 1..Len(filtered) : filtered[k].table_id = id

Rectangular(rows) ==
    \A r1, r2 \in 1..Len(rows) : Len(rows[r1]) = Len(rows[r2])

\* C2 as stated: on both paths, filtering the list a first call returned
\* returns that list again: the same records in the same order with the
\* same rows, shape and headers.
C2_FilterIdempotent ==
    (mode = "filter" /\ pc \in {"quality_again", "display_again"})
        => filtered = previous

\* C2, display path alone: filter_tables_for_display returns its own
\* result unchanged.
C2_DisplayPathIdempotent ==
    (mode = "filter" /\ pc = "display_again") => filtered = previous

\* C2, extraction path on arguments whose rows all have one length:
\* _filter_tables_by_quality returns its own result unchanged.
C2_RectangularIdempotent ==
    (/\ mode = "filter" /\ pc = "quality_again"
     /\ \A i \in 1..Len(given) : Rectangular(given[i].rows))
        => filtered = previous

\* C7: a table with fewer than 2 rows or fewer than 2 columns is in the
\* list neither path returns, whatever its accuracy and cells.
C7_TinyRejected ==
    (mode = "filter" /\ pc \in {"quality", "display", "raised"}) =>
        \A i \in 1..Len(given) :
            (\/ Len(given[i].rows) < 2
             \/ given[i].shape[1] < 2
             \/ given[i].shape[2] < 2)
            => ~Returned(given[i].table_id)

\* C7 witness: the extraction path was given a table of shape (1,5) with
\* accuracy 0.9 and a table it accepts; it returned only the second.
C7_Witness ==
    /\ mode = "filter" /\ pc = "quality"
    /\ Len(given) = 2
    /\ given[1].shape = <<1, 5>>
    /\ given[1].accuracy = AccNum(90)
    /\ ~Returned(given[1].table_id)
    /\ Returned(given[2].table_id)

\* C15 as stated: every record either path returns is normalized: its rows
\* all have one length, shape is (number of rows, greatest row length),
\* and headers is present with exactly shape[1] entries.
C15_AcceptedNormalized ==
    (mode = "filter" /\ pc \in {"quality", "display"}) =>
        \A i \in 1..Len(filtered) :
            LET t == filtered[i]
                lengths == {Len(t.rows[r]) : r \in 1..Len(t.rows)}
            IN  /\ \A m, n \in lengths : m = n
                /\ t.shape # Absent
                /\ t.shape[1] = Len(t.rows)
                /\ \A n \in lengths : n <= t.shape[2]
                /\ t.shape[2] \in lengths
                /\ t.headers # Absent
                /\ Len(t.headers[1]) = t.shape[2]

\* C15, extraction path, what does hold of every returned record: shape is
\* (number of rows, length of the first row), and headers is present.
C15_ShapeOfFirstRow ==
    (mode = "filter" /\ pc = "quality") =>
        \A i \in 1..Len(filtered) :
            /\ filtered[i].shape = <<Len(filtered[i].rows), Len(filtered[i].rows[1])>>
            /\ filtered[i].headers # Absent

\* The keys of the list do not increase from one position to the next.
SortedDescending(list) ==
    \A i, j \in 1..Len(list) :
        i < j => /\ ~KeysIncomparable(SortKey(list[i]), SortKey(list[j]))
                 /\ ~KeyLess(SortKey(list[i]), SortKey(list[j]))

\* C16: the list either path of the Table Quality Filter returns is sorted
\* in descending order of (accuracy, cell_count, unique_value_count), and
\* the display path returns at most 3 records.
C16_SortedDescending ==
    (mode = "filter" /\ pc \in {"quality", "display"}) =>
        /\ SortedDescending(filtered)
        /\ pc = "display" => Len(filtered) <= DisplayLimit

\* C16, display path alone: the list returned is sorted in descending order
\* of the key and holds at most 3 records.
C16_DisplaySorted ==
    (mode = "filter" /\ pc = "display") =>
        /\ SortedDescending(filtered)
        /\ Len(filtered) <= DisplayLimit

\* C16, extraction path: the records returned are the accepted ones in the
\* order of the argument list.
C16_QualityKeepsOrder ==
    (mode = "filter" /\ pc = "quality") =>
        \A i, j \in 1..Len(filtered) :
            i < j => filtered[i].table_id < filtered[j].table_id

\* C17: the Table Quality Filter never fails.  No call of either path, on
\* any list of Table Records (accuracy a number, None or absent; headers
\* and shape present or absent), ends in an error.
C17_NeverFails ==
    mode = "filter" => pc # "raised"

\* C17, extraction path: _filter_tables_by_quality returns a list for every
\* argument, also when None and numeric accuracies are mixed.
C17_QualityReturns ==
    [][FilterQuality =>
          /\ pc' = "quality"
          /\ \A i \in 1..Len(filtered') :
                 \E k \in 1..Len(tables) : filtered'[i].table_id = tables[k].table_id]_vars

\* C17, display path: the call ends in an error exactly when two accepted
\* records are sorted of which one has accuracy None and the other a number
\* (absent counts as the number 0).
C17_DisplayRaisesOnMixedAccuracy ==
    [][FilterDisplay =>
          (pc' = "raised" <=>
              \E i, j \in 1..Len(tables) :
                  /\ DisplayAccepts(tables[i]) /\ DisplayAccepts(tables[j])
                  /\ tables[i].accuracy.k = "none"
                  /\ tables[j].accuracy.k # "none")]_vars

\* C18: the Table Quality Filter does not modify its input.  After a call
\* of either path the argument list holds the records it held before the
\* call, each with the same rows, shape and headers.
C18_InputsUnmodified ==
    (mode = "filter" /\ pc \in {"quality", "display", "raised"}) =>
        /\ Len(tables) = Len(given)
        /\ \A i \in 1..Len(tables) :
               /\ tables[i].rows = given[i].rows
               /\ tables[i].shape = given[i].shape
               /\ tables[i].headers = given[i].headers

\* C18, display path: filter_tables_for_display leaves its argument as it
\* was.
C18_DisplayInputUnmodified ==
    (mode = "filter" /\ pc \in {"display", "raised"}) => tables = given

\* C18, extraction path: every record the call returns is the argument's
\* record of that table_id as the call left it, so the cleaning of an
\* accepted record is visible through the argument.
C18_QualityReturnsItsArguments ==
    (mode = "filter" /\ pc = "quality") =>
        \A i \in 1..Len(filtered) :
            \E k \in 1..Len(tables) : filtered[i] = tables[k]

\* A cell without content: None, or a string of whitespace only.
BlankCell(cell) ==
    cell = NoneCell \/ \A i \in 1..Len(cell) : IsSpace(cell[i])

\* The rows of a record that hold some content.
FilledRows(t) ==
    {r \in 1..Len(t.rows) : \E c \in 1..Len(t.rows[r]) : ~BlankCell(t.rows[r][c])}

\* Cells, and cells without content, in the rows with some content.
TrimmedTotal(t) ==
    Cardinality({x \in CellsAt(t.rows) : x[1] \in FilledRows(t)})

TrimmedEmpty(t) ==
    Cardinality({x \in CellsAt(t.rows) :
                    x[1] \in FilledRows(t) /\ BlankCell(t.rows[x[1]][x[2]])})

\* Cells with content among all cells of the record.
FilledCells(t) ==
    Cardinality({x \in CellsAt(t.rows) : ~BlankCell(t.rows[x[1]][x[2]])})

\* The record passes every check of the extraction path other than the
\* emptiness check.
QualityOtherChecksPass(t) ==
    /\ ~QualityTiny(t)
    /\ ~QualityLowAccuracy(t)
    /\ Cardinality(FilledRows(t)) >= 2
    /\ Cardinality(QualityUniqueValues(CleanedRows(RowsOf(t)))) >= QualityUniqueFloor

\* The record passes every check of the display path other than the
\* emptiness check.
DisplayOtherChecksPass(t) ==
    /\ ~DisplayTiny(t)
    /\ ~DisplayLowAccuracy(t)
    /\ Len(RowsOf(t)) >= 2
    /\ Cardinality(DisplayUnique(RowsOf(t))) >= DisplayUniqueFloor
    /\ ~MostlyHeaderLike(RowsOf(t))

\* C21: on the extraction path a record that passes the other checks is
\* rejected exactly when, in the rows left after trimming the fully-empty
\* ones, more than 60% of the cells are empty (5 * empty > 3 * total); on
\* the display path exactly when fewer than 40% of all its cells are
\* non-empty (5 * filled < 2 * total) or it has no cell.  A record with
\* exactly 60% empty and 40% non-empty cells passes on both paths.
C21_EmptinessThresholds ==
    /\ (mode = "filter" /\ pc = "quality") =>
           \A i \in 1..Len(given) :
               QualityOtherChecksPass(given[i]) =>
                   (~Returned(given[i].table_id) <=>
                        5 * TrimmedEmpty(given[i]) > 3 * TrimmedTotal(given[i]))
    /\ (mode = "filter" /\ pc = "display" /\ Len(given) <= DisplayLimit) =>
           \A i \in 1..Len(given) :
               DisplayOtherChecksPass(given[i]) =>
                   (~Returned(given[i].table_id) <=>
                        \/ TotalCells(given[i].rows) = 0
                        \/ 5 * FilledCells(given[i]) < 2 * TotalCells(given[i].rows))

\* The extraction path was given a record with 4 of its 10 cells filled
\* (the others "", " " and None) and a record with 5 of 15: it returned the
\* first and rejected the second.
C21_Witness ==
    /\ mode = "filter" /\ pc = "quality"
    /\ Len(given) = 2
    /\ QualityOtherChecksPass(given[1]) /\ QualityOtherChecksPass(given[2])
    /\ TrimmedTotal(given[1]) = 10 /\ TrimmedEmpty(given[1]) = 6
    /\ TrimmedTotal(given[2]) = 15 /\ TrimmedEmpty(given[2]) = 10
    /\ Returned(given[1].table_id)
    /\ ~Returned(given[2].table_id)

\* The display path was given the record with 4 of 10 cells filled and the
\* record with 4 of 15 (its last row empty): it returned only the first,
\* while the extraction path returns both.
C21_WitnessDisplay ==
    /\ mode = "filter" /\ pc = "display"
    /\ Len(given) = 2
    /\ DisplayOtherChecksPass(given[1]) /\ DisplayOtherChecksPass(given[2])
    /\ FilledCells(given[1]) = 4 /\ TotalCells(given[1].rows) = 10
    /\ FilledCells(given[2]) = 4 /\ TotalCells(given[2].rows) = 15
    /\ Returned(given[1].table_id)
    /\ ~Returned(given[2].table_id)
    /\ Len(FilterTablesByQuality(given).out) = 2

(***************************************************************************)
(* Claims about the Text-to-Table Orchestrator                             *)
(***************************************************************************)

\* C3: the table text_to_table produces is rectangular.  Every row has
\* exactly max_col_count cells, max_col_count being the greatest row
\* length of the chosen data; a shorter row is the chosen row followed by
\* empty strings; and the headers are Column_1 .. Column_N for that same
\* column count N.
C3_Rectangular ==
    (mode = "text" /\ pc = "padded") =>
        LET lengths == {Len(chosen[r]) : r \in 1..Len(chosen)}
            max_col_count ==
                IF chosen = <<>> THEN 0
                ELSE CHOOSE m \in lengths : \A n \in lengths : n <= m
        IN  /\ Len(table_data) = Len(chosen)
            /\ \A r \in 1..Len(table_data) :
                  /\ Len(table_data[r]) = max_col_count
                  /\ \A c \in 1..max_col_count :
                        table_data[r][c] =
                            IF c <= Len(chosen[r]) THEN chosen[r][c] ELSE <<>>
            /\ Len(table_headers) = max_col_count
            /\ \A i \in 1..max_col_count :
                  table_headers[i] =
                      <<"C", "o", "l", "u", "m", "n", "_">> \o IntToStr(i)

\* The delimiter result was retained with rows of two and of three cells,
\* and the short row has been padded.
C3_Witness ==
    /\ mode = "text" /\ pc = "padded"
    /\ best_from = 2
    /\ \E r \in 1..Len(chosen) :
          /\ Len(chosen[r]) = 2
          /\ Len(table_data[r]) = 3
          /\ table_data[r][3] = <<>>

\* C10: the generators are evaluated in the order fixed-width, delimiter,
\* line-grouping, consistent-pattern, and the current best is replaced only
\* on a strictly greater score: after every round the retained candidate
\* has the greatest score among the results so far that have more than one
\* row, and it is the earliest result of that score; with no such result
\* nothing is retained.
C10_FirstMaximalRetained ==
    (mode = "text" /\ pc \in {"loop", "best", "chosen", "padded"}) =>
        LET eligible == {i \in 1..Len(candidates) : Len(candidates[i]) > 1}
            maximal ==
                {i \in eligible :
                    \A j \in eligible :
                        ScoreAtLeast(ScoreTableStructure(candidates[i]),
                                     ScoreTableStructure(candidates[j]))}
        IN  /\ Len(candidates) = approach - 1
            /\ \A i \in 1..Len(candidates) :
                  candidates[i] = ApproachFunc(i, text_lines)
            /\ IF eligible = {}
               THEN best_from = 0 /\ best_data = <<>>
               ELSE /\ best_from \in maximal
                    /\ \A j \in maximal : best_from <= j
                    /\ best_data = candidates[best_from]
                    /\ best_score = ScoreTableStructure(best_data)

\* All four generators have run, the delimiter result and the
\* consistent-pattern result have the same score, no result has a greater
\* one, and the delimiter result is the one retained.
C10_Witness ==
    /\ mode = "text" /\ pc = "best"
    /\ Len(candidates) = 4
    /\ Len(candidates[2]) > 1
    /\ Len(candidates[4]) > 1
    /\ ScoreTableStructure(candidates[2]) = ScoreTableStructure(candidates[4])
    /\ Len(candidates[3]) > 1
    /\ ScoreGreater(ScoreTableStructure(candidates[2]),
                    ScoreTableStructure(candidates[3]))
    /\ best_from = 2

\* The case C11 is about: no generator result has more than one row, or
\* the retained candidate has at most one row, or none of its rows has
\* more than one cell.
FallbackCase ==
    \/ \A i \in 1..Len(candidates) : Len(candidates[i]) <= 1
    \/ Len(best_data) <= 1
    \/ \A r \in 1..Len(best_data) : Len(best_data[r]) <= 1

\* C11 as stated: in the fallback case the output is one single-cell row
\* per non-empty stripped line of the text, in input order, the cell being
\* the line, and the table has the one header Column_1.
C11_FallbackSingleColumn ==
    (mode = "text" /\ pc = "padded" /\ FallbackCase) =>
        /\ text_lines = StrippedLines(text)
        /\ Len(table_data) = Len(text_lines)
        /\ \A i \in 1..Len(text_lines) : table_data[i] = <<text_lines[i]>>
        /\ table_headers = << <<"C", "o", "l", "u", "m", "n", "_", "1">> >>

\* C11, amended: in the fallback case the output is one single-cell row per
\* non-empty stripped line of the text, in input order, the cell being the
\* stripped line; the header is Column_1 if there is at least one such
\* line, and there is no header at all if there is none.
C11_FallbackRows ==
    (mode = "text" /\ pc = "padded" /\ FallbackCase) =>
        /\ text_lines = StrippedLines(text)
        /\ Len(table_data) = Len(text_lines)
        /\ \A i \in 1..Len(text_lines) : table_data[i] = <<text_lines[i]>>
        /\ table_headers =
              IF text_lines = <<>> THEN <<>>
              ELSE << <<"C", "o", "l", "u", "m", "n", "_", "1">> >>

\* The line-grouping result, one cell per row, was retained for two lines
\* of several words, and the output has one cell per line.
C11_Witness ==
    /\ mode = "text" /\ pc = "padded"
    /\ best_from = 3
    /\ FallbackCase
    /\ Len(text_lines) = 2
    /\ text_lines[1] = <<"a", " ", "1", " ", "2">>
    /\ table_data = << <<text_lines[1]>>, <<text_lines[2]>> >>

\* C12 as stated: a generator result with fewer than 2 rows, or whose
\* longest row has fewer than 2 cells, is not passed to the Structure
\* Scorer and is not retained as best_data.
C12_SingleColumnNeverScored ==
    (mode = "text" /\ pc \in {"loop", "best", "chosen", "padded"}) =>
        \A i \in 1..Len(candidates) :
            (\/ Len(candidates[i]) < 2
             \/ \A r \in 1..Len(candidates[i]) : Len(candidates[i][r]) < 2)
            => (~Scored(candidates[i]) /\ best_from # i)

\* C12, the part about the row count alone: a generator result with fewer
\* than 2 rows is not passed to the Structure Scorer and is not retained.
C12_SingleRowNeverScored ==
    (mode = "text" /\ pc \in {"loop", "best", "chosen", "padded"}) =>
        \A i \in 1..Len(candidates) :
            Len(candidates[i]) < 2 => (~Scored(candidates[i]) /\ best_from # i)

\* C14: for a text without a non-empty line (empty or all whitespace),
\* every generator returns the empty list, the chosen table has no row,
\* the conversion runs to its end, and the file written is a header row
\* (it has no field, the table having no column) and no data row.
C14_BlankText ==
    (mode = "text" /\ \A k \in 1..Len(text) : IsSpace(text[k])) =>
        /\ pc # "start" => text_lines = <<>>
        /\ \A i \in 1..Len(candidates) : candidates[i] = <<>>
        /\ pc \in {"best", "chosen", "padded", "written"} =>
              Len(candidates) = 4 /\ best_data = <<>>
        /\ pc \in {"chosen", "padded", "written"} => chosen = <<>>
        /\ pc \in {"padded", "written"} =>
              table_data = <<>> /\ table_headers = <<>>
        /\ pc = "written" => csv_file = << <<>> >>

\* A text of blanks on two lines has been converted and its file written.
C14_Witness ==
    /\ mode = "text" /\ pc = "written"
    /\ text = <<" ", "\n", "\t", " ">>
    /\ Len(candidates) = 4
    /\ Len(csv_file) = 1

\* C25: whenever some generator returned a candidate of more than one row
\* in which some row has 2 or more cells, the table text_to_table produces
\* has at least 2 columns; a one-column candidate never wins over it.
C25_MultiColumnWins ==
    (mode = "text" /\ pc \in {"padded", "written"}) =>
        ((\E i \in 1..Len(candidates) :
             /\ Len(candidates[i]) > 1
             /\ \E r \in 1..Len(candidates[i]) : Len(candidates[i][r]) >= 2)
         => Len(table_headers) >= 2)

\* C25, what the loop guarantees: the table has as many columns as the
\* longest row of the best-scoring candidate of more than one row, whatever
\* the other candidates hold; with a best candidate of one-cell rows it
\* has one column.
C25_ColumnsOfBestScore ==
    (mode = "text" /\ pc \in {"padded", "written"} /\ best_from # 0) =>
        /\ \A i \in 1..Len(candidates) :
               Len(candidates[i]) > 1 =>
                   ScoreAtLeast(best_score, ScoreTableStructure(candidates[i]))
        /\ \A r \in 1..Len(best_data) : Len(best_data[r]) <= Max(1, Len(table_headers))
        /\ (\A r \in 1..Len(best_data) : Len(best_data[r]) <= 1)
               => Len(table_headers) = 1

NonSpace(ch) == ~IsSpace(ch)

\* the cells of a row, one after the other
RECURSIVE RowText(_)
RowText(row) ==
    IF row = <<>> THEN <<>> ELSE Head(row) \o RowText(Tail(row))

\* part occurs in whole as a run of consecutive characters
OccursIn(part, whole) ==
    \E k \in 0..(Len(whole) - Len(part)) :
        \A j \in 1..Len(part) : whole[k + j] = part[j]

\* the characters of the line other than whitespace are, in their order,
\* characters of the cells of the row
CutFrom(row, line) ==
    OccursIn(SelectSeq(line, NonSpace), SelectSeq(RowText(row), NonSpace))

\* the line has a row of the table written
LineKept(line) == \E r \in 1..Len(table_data) : CutFrom(table_data[r], line)

\* C27 as stated: no content of the text is dropped: for every non-empty
\* stripped line the table written has a row whose cells were cut from
\* that line, every character of the line other than whitespace being in
\* a cell.
C27_NoContentDropped ==
    (mode = "text" /\ pc \in {"padded", "written"}) =>
        \A i \in 1..Len(text_lines) : LineKept(text_lines[i])


(***************************************************************************)
(* Claims about the generators                                             *)
(***************************************************************************)

\* C4: for every line sequence, the rows returned by the Fixed-Width
\* Column Splitter and by the Delimiter Detector contain no empty row, and
\* every cell is a non-empty string without surrounding whitespace.
C4_NoEmptyRow ==
    (mode = "lines" /\ pc = "returned" /\ approach \in {1, 2}) =>
        \A r \in 1..Len(candidates[1]) :
            /\ candidates[1][r] # <<>>
            /\ \A c \in 1..Len(candidates[1][r]) :
                  LET cell == candidates[1][r][c]
                  IN  /\ cell # <<>>
                      /\ ~IsSpace(cell[1])
                      /\ ~IsSpace(cell[Len(cell)])

\* The Delimiter Detector returned rows for lines of which one has an
\* empty field between two commas: its row has the two cells that are left.
C4_Witness ==
    /\ mode = "lines" /\ pc = "returned" /\ approach = 2
    /\ \E i \in 1..Len(text_lines) :
          /\ text_lines[i] = <<"a", ",", ",", "b">>
          /\ Len(candidates[1]) = Len(text_lines)
          /\ candidates[1][i] = << <<"a">>, <<"b">> >>

\* C6: the Delimiter Detector scores each of comma, tab, pipe, colon,
\* semicolon and double space over the first 20 lines as its total number
\* of occurrences, doubled when every line that contains it contains it
\* the same number of times; it splits every line by the highest-scoring
\* delimiter (the first of them in that order) if that score is greater
\* than 10 and returns the empty list otherwise.  For "a,b,c", "1,2,3",
\* "4,5,6" comma scores 12 and the result is [[a,b,c],[1,2,3],[4,5,6]].
C6_DelimiterRule ==
    (mode = "lines" /\ pc = "returned" /\ approach = 2) =>
        LET first20 == SubSeq(text_lines, 1, Min(20, Len(text_lines)))
            occurrences(d, i) == Count(first20[i], Delimiters[d])
            total(d) ==
                SumTo([i \in 1..Len(first20) |-> occurrences(d, i)], Len(first20))
            constant(d) ==
                \A i, j \in {k \in 1..Len(first20) : occurrences(d, k) > 0} :
                    occurrences(d, i) = occurrences(d, j)
            score(d) == IF constant(d) THEN 2 * total(d) ELSE total(d)
            highest ==
                CHOOSE d \in 1..6 :
                    /\ \A e \in 1..6 : score(e) <= score(d)
                    /\ \A e \in 1..(d - 1) : score(e) < score(d)
        IN  /\ Delimiters = <<<<",">>, <<"\t">>, <<"|">>, <<":">>, <<";">>,
                               <<" ", " ">>>>
            /\ IF score(highest) > 10
               THEN candidates[1] = DelimitedRows(text_lines, Delimiters[highest])
               ELSE candidates[1] = <<>>
            /\ text_lines = CommaLines =>
                  /\ score(1) = 12
                  /\ candidates[1] = << << <<"a">>, <<"b">>, <<"c">> >>,
                                        << <<"1">>, <<"2">>, <<"3">> >>,
                                        << <<"4">>, <<"5">>, <<"6">> >> >>

\* The Delimiter Detector has returned the three rows of "a,b,c", "1,2,3",
\* "4,5,6".
C6_Witness ==
    /\ mode = "lines" /\ pc = "returned" /\ approach = 2
    /\ text_lines = CommaLines
    /\ Len(candidates[1]) = 3
    /\ candidates[1][3] = << <<"4">>, <<"5">>, <<"6">> >>

\* The Line-Grouping Segmenter returned: its buffers, in order, hold the
\* lines in order.
GroupingReturned == mode = "lines" /\ pc = "returned" /\ approach = 3

\* The positions in text_lines of the lines that are first in their buffer.
BufferStarts ==
    LET buffers == candidates[1]
    IN  {1 + SumTo([b \in 1..Len(buffers) |-> Len(buffers[b])], k - 1) :
            k \in 1..Len(buffers)}

\* The line at position k was appended to the buffer of its predecessor.
Appended(k) == k \in 1..Len(text_lines) /\ k \notin BufferStarts

\* C19: the Line-Grouping Segmenter appends a line to the current buffer
\* only if the line contains a digit and the line before it contains a
\* digit; a header-like line, and a line whose predecessor has no digit
\* (the second line after a first line without digits included), starts a
\* new buffer.
C19_AppendOnlyAfterDataLike ==
    GroupingReturned =>
        \A k \in 1..Len(text_lines) :
            /\ Appended(k) => /\ HasNumbers(text_lines[k])
                              /\ k > 1
                              /\ HasNumbers(text_lines[k - 1])
            /\ IsHeader(text_lines[k]) => ~Appended(k)

\* C19, as the loop decides it: a line is appended exactly when it is not
\* the first line, contains a digit, is not header-like, and the line
\* before it is the first line or is not header-like.
C19_AppendRule ==
    GroupingReturned =>
        \A k \in 1..Len(text_lines) :
            Appended(k) <=>
                /\ k > 1
                /\ HasNumbers(text_lines[k])
                /\ ~IsHeader(text_lines[k])
                /\ (k = 2 \/ ~IsHeader(text_lines[k - 1]))

\* C19: the buffers returned hold the lines given, in their order.
C19_BuffersHoldLines ==
    GroupingReturned =>
        /\ SumTo([b \in 1..Len(candidates[1]) |-> Len(candidates[1][b])],
                 Len(candidates[1])) = Len(text_lines)
        /\ \A b \in 1..Len(candidates[1]) :
               \A n \in 1..Len(candidates[1][b]) :
                   candidates[1][b][n] =
                       text_lines[SumTo([x \in 1..Len(candidates[1]) |->
                                            Len(candidates[1][x])], b - 1) + n]

\* the rows one after the other
RECURSIVE Concatenated(_)
Concatenated(rows) ==
    IF rows = <<>> THEN <<>> ELSE Head(rows) \o Concatenated(Tail(rows))

\* C28: the Line-Grouping Segmenter partitions its input: the returned
\* rows, one after the other, are exactly the lines given, each once and
\* in input order, and no returned row is empty.
C28_GroupingPartitions ==
    GroupingReturned =>
        /\ Concatenated(candidates[1]) = text_lines
        /\ \A b \in 1..Len(candidates[1]) : candidates[1][b] # <<>>

\* "a 1 2" and the long line came back as one row of the two lines.
C28_Witness ==
    /\ GroupingReturned
    /\ text_lines = << <<"a", " ", "1", " ", "2">>, LongLine >>
    /\ candidates[1] = << text_lines >>

\* The two lines "a,b,c" and "1,2,3" came back as two rows of one line.
C28_WitnessTwoRows ==
    /\ GroupingReturned
    /\ text_lines = << <<"a", ",", "b", ",", "c">>, <<"1", ",", "2", ",", "3">> >>
    /\ candidates[1] = << <<text_lines[1]>>, <<text_lines[2]>> >>

\* The Consistent-Pattern Segmenter returned.
PatternsReturned == mode = "lines" /\ pc = "returned" /\ approach = 4

\* The simplified signature of the line at position i.
Signature(i) == SimplePattern(GetPattern(text_lines[i]))

\* The positions of the lines that share the signature of line i.
SignatureGroup(i) ==
    {j \in 1..Len(text_lines) : Signature(j) = Signature(i)}

\* The size of the largest group, 0 without lines.
LargestSize ==
    IF text_lines = <<>> THEN 0
    ELSE CHOOSE m \in 1..Len(text_lines) :
            /\ \E i \in 1..Len(text_lines) : Cardinality(SignatureGroup(i)) = m
            /\ \A i \in 1..Len(text_lines) : Cardinality(SignatureGroup(i)) <= m

\* The lines of the largest group (the one whose signature occurs first
\* among the largest), in input order, and the first 5 of them.
LargestLines ==
    LET first == CHOOSE i \in 1..Len(text_lines) :
                    /\ Cardinality(SignatureGroup(i)) = LargestSize
                    /\ \A j \in 1..(i - 1) :
                           Cardinality(SignatureGroup(j)) < LargestSize
    IN  SelectIdx(text_lines,
                  [j \in 1..Len(text_lines) |-> j \in SignatureGroup(first)], 1)

SampledLines == SubSeq(LargestLines, 1, Min(5, Len(LargestLines)))

\* The number of columns delimiter d splits the first sampled line into.
SampleColumns(d) == Len(PatternParts(SampledLines[1], PotentialDelims[d]))

\* Delimiter d splits every sampled line into the same number of columns,
\* more than 1.
Qualifies(d) ==
    /\ SampleColumns(d) > 1
    /\ \A k \in 1..Len(SampledLines) :
           Len(PatternParts(SampledLines[k], PotentialDelims[d])) = SampleColumns(d)

\* C22: the Consistent-Pattern Segmenter returns the empty list when the
\* largest group of lines sharing one simplified signature has fewer than 3
\* lines.  Otherwise, if some delimiter splits every sampled line (the
\* first 5 of the group) into the same number of columns above 1, the
\* result is all lines of the group split by a qualifying delimiter of
\* maximal column count, one row per line of the group; and if none does,
\* no delimiter is used: the result is empty unless the sampled lines share
\* a whitespace position.
C22_PatternRule ==
    PatternsReturned =>
        LET result == candidates[1]
            qualifying == {d \in 1..Len(PotentialDelims) : Qualifies(d)}
        IN  /\ LargestSize < 3 => result = <<>>
            /\ (LargestSize >= 3 /\ qualifying # {}) =>
                   /\ Len(result) = Len(LargestLines)
                   /\ \E d \in qualifying :
                          /\ \A e \in qualifying :
                                 SampleColumns(e) <= SampleColumns(d)
                          /\ result = [k \in 1..Len(LargestLines) |->
                                          PatternParts(LargestLines[k],
                                                       PotentialDelims[d])]
            /\ (LargestSize >= 3 /\ qualifying = {}) =>
                   \/ result = <<>>
                   \/ \E n \in 1..Len(SampledLines[1]) :
                          \A k \in 1..Len(SampledLines) :
                              /\ n <= Len(SampledLines[k])
                              /\ IsSpace(SampledLines[k][n])

\* The segmenter was called on three lines "a,b:c:d": comma qualifies with
\* 2 columns and colon with 3, and the rows are the colon split.
C22_Witness ==
    /\ PatternsReturned
    /\ text_lines = ColonLines
    /\ Qualifies(1) /\ Qualifies(6)
    /\ candidates[1] = [k \in 1..3 |-> << <<"a", ",", "b">>, <<"c">>, <<"d">> >>]

\* The segmenter was called on "a,b", "a,b", "a;b": the group has 3 lines,
\* no delimiter qualifies, and the result is empty.
C22_WitnessNoDelimiter ==
    /\ PatternsReturned
    /\ text_lines = MixedLines
    /\ LargestSize = 3
    /\ \A d \in 1..Len(PotentialDelims) : ~Qualifies(d)
    /\ candidates[1] = <<>>

\* every line given is non-empty and has no whitespace at either end
LinesStripped ==
    \A i \in 1..Len(text_lines) :
        text_lines[i] # <<>> /\ Strip(text_lines[i]) = text_lines[i]

\* C30: for non-empty stripped lines, every row the Consistent-Pattern
\* Segmenter returns is non-empty and every cell of it is a non-empty
\* string, with a delimiter as with the common whitespace positions, and
\* for the lines of the largest group after the first 5 as well.
C30_PatternRowsNonEmpty ==
    (PatternsReturned /\ LinesStripped) =>
        \A r \in 1..Len(candidates[1]) :
            /\ candidates[1][r] # <<>>
            /\ \A c \in 1..Len(candidates[1][r]) : candidates[1][r][c] # <<>>

\* The Fixed-Width Column Splitter returned.
SplitterReturned == mode = "lines" /\ pc = "returned" /\ approach = 1

\* The column positions (counted from 1) that are whitespace in every one
\* of the first 10 lines.
CommonBoundaries ==
    IF text_lines = <<>> THEN {}
    ELSE {n \in 1..Len(text_lines[1]) :
             \A k \in 1..Min(10, Len(text_lines)) :
                 n <= Len(text_lines[k]) /\ IsSpace(text_lines[k][n])}

\* The trimmed slices of a line between consecutive boundaries, the empty
\* ones dropped: the line is cut before every common boundary, and ends at
\* the end position.
SlicesOf(line) ==
    LET end == Min(Len(line), FixedWidthEnd)
        cuts == SortedList({1} \cup {n \in CommonBoundaries : n <= end}
                               \cup {end + 1})
        slices == [i \in 1..(Len(cuts) - 1) |->
                      Strip(SubSeq(line, cuts[i], cuts[i + 1] - 1))]
    IN  SelectIdx(slices, [i \in 1..Len(slices) |-> slices[i] # <<>>], 1)

\* The first common boundary as the code counts it, from 0.
FirstBoundary ==
    (CHOOSE n \in CommonBoundaries : \A m \in CommonBoundaries : n <= m) - 1

\* The lines at least as long as the first common boundary.
LongEnough ==
    SelectIdx(text_lines,
              [i \in 1..Len(text_lines) |-> Len(text_lines[i]) >= FirstBoundary],
              1)

\* C23 as stated: the Fixed-Width Column Splitter returns the empty list
\* when no column position is whitespace in every one of the first 10
\* lines; otherwise it returns one row for every line at least as long as
\* the first common boundary, made of the non-empty trimmed slices between
\* consecutive boundaries, and nothing for a shorter line.
C23_OneRowPerLongLine ==
    SplitterReturned =>
        IF CommonBoundaries = {} THEN candidates[1] = <<>>
        ELSE candidates[1] = [i \in 1..Len(LongEnough) |-> SlicesOf(LongEnough[i])]

\* C23, amended: the splitter returns the empty list when it is given
\* fewer than 2 lines or when no column position is whitespace in every one
\* of the first 10 lines; otherwise it returns, in input order, for every
\* line at least as long as the first common boundary the row of its
\* non-empty trimmed slices, unless that row is empty, and nothing for a
\* shorter line.
C23_RowPerLongLineWithContent ==
    SplitterReturned =>
        IF Len(text_lines) < 2 \/ CommonBoundaries = {} THEN candidates[1] = <<>>
        ELSE LET rows == [i \in 1..Len(LongEnough) |-> SlicesOf(LongEnough[i])]
             IN  candidates[1] =
                     SelectIdx(rows, [i \in 1..Len(rows) |-> rows[i] # <<>>], 1)

\* The splitter was called on 10 lines "ab c" followed by "x", "xb" and
\* "de f g": the boundary is the third column, "x" is skipped, and the
\* lines after the sample give the rows [xb] and [de, f g].
C23_Witness ==
    /\ SplitterReturned
    /\ text_lines = LateShortLines
    /\ CommonBoundaries = {3}
    /\ Len(candidates[1]) = 12
    /\ candidates[1][10] = << <<"a", "b">>, <<"c">> >>
    /\ candidates[1][11] = << <<"x", "b">> >>
    /\ candidates[1][12] = << <<"d", "e">>, <<"f", " ", "g">> >>

(***************************************************************************)
(* The content the Orchestrator keeps (checked under SpecText)             *)
(***************************************************************************)

\* the delimiter the winning generator split the lines on, <<>> if none
SplitOn ==
    IF best_from = 2
    THEN Delimiters[BestDelimiter(Take(text_lines, DelimiterSample), 1, 0, 0).delim]
    ELSE IF best_from = 4 /\ BestPatternDelim(SampledLines, 1, 0, 0) # 0
         THEN PotentialDelims[BestPatternDelim(SampledLines, 1, 0, 0)]
         ELSE <<>>

\* a character that is neither whitespace nor the delimiter split on
KeptChar(ch) == ~IsSpace(ch) /\ <<ch>> # SplitOn

\* the lines the winning generator does not leave out: every line in the
\* fallback case and for delimiter detection and line grouping; the lines
\* from the first boundary to the end position in length for the
\* fixed-width splitter; for the consistent patterns the lines of the
\* largest group when a delimiter qualifies, and the sampled ones when the
\* common whitespace positions are used
Covered(line) ==
    \/ FallbackCase
    \/ best_from \in {2, 3}
    \/ /\ best_from = 1
       /\ Len(line) >= FirstBoundary
       /\ Len(line) <= FixedWidthEnd
    \/ /\ best_from = 4
       /\ IF BestPatternDelim(SampledLines, 1, 0, 0) # 0
          THEN line \in Range(LargestLines)
          ELSE line \in Range(SampledLines)

\* C27, amended: for every non-empty stripped line that the winning
\* generator does not leave out, the table written has a row whose cells
\* hold, in their order, every character of the line other than whitespace
\* and the delimiter the generator split on.
C27_CoveredLinesKept ==
    (mode = "text" /\ pc \in {"padded", "written"}) =>
        \A i \in 1..Len(text_lines) :
            Covered(text_lines[i]) =>
                \E r \in 1..Len(table_data) :
                    OccursIn(SelectSeq(text_lines[i], KeptChar),
                             SelectSeq(RowText(table_data[r]), NonSpace))

\* "a  b", "a  b", "x", "ab c": the Consistent-Pattern Segmenter gave the
\* best table, it has a row for each of the three lines of the largest
\* group, and the line "x" has none.
C27_Witness ==
    /\ mode = "text" /\ pc = "written"
    /\ text_lines = OddLineOutLines
    /\ best_from = 4
    /\ table_data = << << <<"a">>, <<"b">> >>, << <<"a">>, <<"b">> >>,
                       << <<"a", "b">>, <<"c">> >> >>
    /\ ~LineKept(<<"x">>)

(***************************************************************************)
(* Claims about the Structure Scorer                                       *)
(***************************************************************************)

ClaimedScore(data) ==
    LET n == Len(data)
        len == [i \in 1..n |-> Len(data[i])]
        cells == SumTo(len, n)
        C == IF cells > 0 THEN cells ELSE 1
        E == 10 * n * n * n * C
        \* n^2 times the sum of the squared deviations from the mean cells/n
        deviations ==
            SumTo([i \in 1..n |-> (n * len[i] - cells) * (n * len[i] - cells)], n)
        consistency ==
            IF \A i, j \in 1..n : len[i] = len[j] THEN 3 * E
            ELSE Max(0, 3 * E - 2 * C * deviations)
        cols == Min(3 * E, 5 * n * n * C * cells)
        digits ==
            Cardinality({x \in CellsAt(data) :
                            \E i \in 1..Len(data[x[1]][x[2]]) :
                                IsDigit(data[x[1]][x[2]][i])})
        content == IF cells > 0 THEN 20 * n * n * n * digits ELSE 0
        rows == Min(2 * E, n * n * n * n * C)
    IN  Rational(consistency + cols + content + rows, E)

\* x = y on scores
ScoreEqual(x, y) == CompareRatios(x.num, x.den, y.num, y.den) = 0

\* C20: the Structure Scorer returns 0 for the empty table and 1 for a
\* table of one row; for a table of at least 2 rows it returns
\* consistency + cols + content + rows, where consistency is 3 exactly
\* when all rows have the same length and otherwise max(0, 3 - variance/5),
\* cols = min(3, average row length / 2), content = 2 x (cells containing
\* a digit / all cells) and 0 for a table without any cell, and
\* rows = min(2, row count / 10); every score lies between 0 and 10.
C20_ScoreFormula ==
    (mode = "score" /\ pc \in {"scored", "scored_again"}) =>
        /\ Len(score_data) = 0 => ScoreEqual(total_score, Rational(0, 1))
        /\ Len(score_data) = 1 => ScoreEqual(total_score, Rational(1, 1))
        /\ Len(score_data) >= 2 =>
               ScoreEqual(total_score, ClaimedScore(score_data))
        /\ ScoreAtLeast(total_score, Rational(0, 1))
        /\ ScoreAtLeast(Rational(10, 1), total_score)

\* A table of 21 rows of six cells, each with a digit, has been scored:
\* every term is at its greatest value and the score is 10.
C20_Witness ==
    /\ mode = "score" /\ pc = "scored"
    /\ score_data = [i \in 1..21 |-> ScoreRow(6, 6)]
    /\ ScoreEqual(total_score, Rational(10, 1))

\* A table with an empty first row above 20 rows of six cells has been
\* scored: the consistency term is 3 - variance/5, below 3 and above 0.
C20_WitnessUnevenRows ==
    /\ mode = "score" /\ pc = "scored"
    /\ Len(score_data) = 21 /\ score_data[1] = <<>>
    /\ ScoreGreater(Rational(10, 1), total_score)
    /\ ScoreGreater(total_score, Rational(9, 1))

(***************************************************************************)
(* Claims about the emitter                                                *)
(***************************************************************************)

\* The case C13 is about: no table of pdf_data yields a frame, and the text
\* is absent or has no non-empty line.
NoRowsToEmit ==
    /\ DataFrames(ValueOf(pdf_data.tables)) = <<>>
    /\ StrippedLines(ValueOf(pdf_data.text)) = <<>>

\* C13 as stated: when there are no rows to emit, for an absent, empty or
\* whitespace-only text and with or without metadata, the file is exactly
\* the header Metadata_Key,Metadata_Value and no data row.
C13_HeaderOnly ==
    (mode = "emit" /\ pc = "written" /\ NoRowsToEmit) =>
        csv_file =
            << << <<"M", "e", "t", "a", "d", "a", "t", "a", "_", "K", "e", "y">>,
                  <<"M", "e", "t", "a", "d", "a", "t", "a", "_", "V", "a", "l",
                    "u", "e">> >> >>

\* C13, amended: when no table yields a frame and the text is absent or
\* empty, the file is the header Metadata_Key,Metadata_Value followed by
\* one row (key, value) per metadata item, which is no data row when the
\* metadata is absent or empty; when the text is not empty but has no
\* non-empty line, the file is the one header row of text_to_table, which
\* has no field, and no data row.
C13_DegenerateOutput ==
    (mode = "emit" /\ pc = "written" /\ NoRowsToEmit) =>
        IF ValueOf(pdf_data.text) = <<>>
        THEN /\ Len(csv_file) = 1 + Len(ValueOf(pdf_data.metadata))
             /\ csv_file[1] =
                   << <<"M", "e", "t", "a", "d", "a", "t", "a", "_", "K", "e", "y">>,
                      <<"M", "e", "t", "a", "d", "a", "t", "a", "_", "V", "a", "l",
                        "u", "e">> >>
             /\ \A i \in 1..Len(ValueOf(pdf_data.metadata)) :
                   csv_file[i + 1] = ValueOf(pdf_data.metadata)[i]
        ELSE csv_file = << <<>> >>

\* Nothing but metadata was there to emit: the text is empty, the one table
\* is too small, and the file has the header and the row of the one item.
C13_Witness ==
    /\ mode = "emit" /\ pc = "written"
    /\ NoRowsToEmit
    /\ pdf_data.text = << <<>> >>
    /\ pdf_data.tables # Absent
    /\ Len(pdf_data.tables[1]) = 1
    /\ Len(ValueOf(pdf_data.metadata)) = 1
    /\ Len(csv_file) = 2

====
